---- MODULE Spec2Model ----
(***************************************************************************)
(* go-file-diff: the Signature builder and the Delta builder of package    *)
(* sync (GenerateSignature, GenerateDelta and their helpers), run one      *)
(* after the other as the driver does in combined mode: the Signature of   *)
(* the original file is built first, then the Delta of the updated file    *)
(* against that Signature, inside getDelta, which maps the errors of its   *)
(* three steps (open, generate, write) to the errors it returns.           *)
(* HashSpec runs the two weak hash functions and modulo on their own, at    *)
(* the scaled parameters and, for a family of windows, at the source's     *)
(* parameters in exact decimal arithmetic.  MainSpec runs main: the        *)
(* command line is parsed and verified and the phases are called in turn.  *)
(*                                                                         *)
(* Scaling.  The source fixes chunk = 16, seed = 11, mod = 10^11 + 9.      *)
(* TLC's integers are 32 bits wide and file contents are enumerated, so    *)
(* the window is run at chunk = 3 (and 4) and the modulus at 10^3 + 9.     *)
(* Every operator below takes the window size from chunk and the modulus   *)
(* from mod, as the code does.  With these values no int64 intermediate    *)
(* of the code exceeds 2^31, so 64-bit overflow plays no part there.       *)
(*                                                                         *)
(* SHA-256 (generateStrongHash) is modelled as collision free: the digest  *)
(* of a buffer stands for the bytes hashed.                                *)
(***************************************************************************)
EXTENDS Integers, Sequences, FiniteSets, TLC

VARIABLES
    pc,                   \* position of the run: idle, sigLoop, sigFailed, sigDone, deltaLoop,
                          \* deltaFailed, done, panic, and the returns of getDelta
    original,             \* bytes of the original file
    updated,              \* bytes of the updated file
    reader,               \* the Reader in use: [data, off]
    buffer,               \* the rolling window
    weakHash,             \* weak hash of the window
    head,                 \* GenerateSignature: head
    tail,                 \* GenerateSignature: tail
    signature,            \* models.Signature: weak hash -> StrongSignature
    blockHead,            \* GenerateDelta: blockHead
    deltaHead,            \* GenerateDelta: deltaHead
    deltaTail,            \* GenerateDelta: deltaTail
    delta,                \* GenerateDelta: delta (the map being built)
    initialBlockMatches,  \* GenerateDelta: initialBlockMatches
    block,                \* GenerateDelta: block (the open block)
    exists,               \* GenerateDelta: exists
    retDelta,             \* Delta returned by GenerateDelta
    err,                  \* error returned by the last call ("nil" when none)
    priorHash,            \* rollWeakHash: hash (the value rolled from)
    evictedByte,          \* rollWeakHash: initialByte (the byte leaving the window)
    appendedByte,         \* rollWeakHash: nextByte (the byte entering the window)
    outDelta,             \* getDelta: the Delta it returns
    outErr,               \* getDelta: the error it returns
    deltaFile,            \* the Deltas handed to writeStructToFile for the Delta file, in order
    cmd,                  \* main: cmd (the parsed command line)
    verified,             \* main: what verifyCMD(cmd) returned
    exitCode,             \* exit status of the process (-1 while it runs)
    logged,               \* the lines logged with verbose = true, in order
    calls,                \* the functions main has called, in order
    applied               \* a function applied on its own: [fn, args, result]

vars == <<pc, original, updated, reader, buffer, weakHash, head, tail, signature,
          blockHead, deltaHead, deltaTail, delta, initialBlockMatches, block,
          exists, retDelta, err, priorHash, evictedByte, appendedByte,
          outDelta, outErr, deltaFile, cmd, verified, exitCode, logged, calls, applied>>

sigVars == <<head, tail, signature>>
deltaVars == <<blockHead, deltaHead, deltaTail, delta, initialBlockMatches, block,
               exists, retDelta>>
hashVars == <<priorHash, evictedByte, appendedByte>>
driverVars == <<outDelta, outErr, deltaFile>>
mainVars == <<cmd, verified, exitCode, logged, calls, applied>>

----------------------------------------------------------------------------
(* Bounds and parameters *)

\* Window size in bytes (16 in the source, scaled down).  3 is the smallest
\* window for which a modified block can be shorter than chunk - 1 bytes.
chunk == 3

\* Longest run of bytes inserted between the two kept parts of an edited file.
MaxInsert == 2

seed == 11

\* 10^11 + 9 in the source; the exponent is scaled to fit TLC's integers.
mod == 10^3 + 9

\* Byte values the enumerated files are made of.  0, 1 and 11 give distinct
\* windows with equal weak hashes (<<0, 11>> and <<1, 0>>), as "AL" and "BA"
\* do at the end of a 16 byte window in the source.
Byte == {0, 1, 11}

\* Byte values of the short files.
Bit == {0, 1}

\* Byte values of the windows the hash functions are exercised on alone.
HashByte == {0, 1, 11, 255}

\* Error values.
nil == "nil"
ioEOF == "EOF"
EndOfFileError == "Error: Reached EOF"
UpdatedFileHasNoChangesError == "Error: Updated file contains no changes from Original"

FileDoesNotExistError == "Error: File does not exist"
SearchingForFileButFoundDirError == "Error: Searching for a file but found a folder dir"
UpdatedFileDoesNotExistError == "Error: Updated file does not exist"
UpdatedFileIsFolderError == "Error: Updated file provided is a folder dir"
UnableToGenerateDeltaError == "Error: Unable to generate Delta"
\* The texts of the next three are set outside the files at hand; getDelta
\* only compares and returns them, so each stands for itself.
UnableToCreateFileError == "UnableToCreateFileError"
UnableToCreateDeltaFileError == "UnableToCreateDeltaFileError"
UnableToWriteToDeltaFileError == "UnableToWriteToDeltaFileError"

\* Errors openFile can return: the two getDelta renames, and any other.
OpenErrors == {FileDoesNotExistError, SearchingForFileButFoundDirError, "Some Error"}

\* What writeStructToFile can return: nil, the error getDelta renames, any other.
WriteResults == {nil, UnableToCreateFileError, "Some Error"}

\* modulo on its own is applied to dividends in -MaxOperand..MaxOperand and
\* divisors in 1..MaxOperand.
MaxOperand == 12

\* Errors a read can fail with, other than io.EOF.
ReadErrors == {"Some Error", "read: input/output error"}

----------------------------------------------------------------------------
(* Helpers *)

Min(a, b) == IF a < b THEN a ELSE b

FilesBetween(lo, hi) == UNION {[1..n -> Byte] : n \in lo..hi}

\* Input files.  Short files are enumerated exhaustively over the bytes 0
\* and 1: every original of up to chunk + 1 bytes against every updated file
\* of up to chunk + 2 bytes.
\* Long originals (2 * chunk and 2 * chunk + 1 bytes) are the periodic files
\* 0, 1, ..., p - 1, 0, 1, ... of every period p and one file with a weak
\* hash collision; their updated files are
\* edits: the first window kept, then the rest from offset chunk or
\* chunk + 1 on, with bytes inserted before, between and after.
ShortOriginals == UNION {[1..n -> Bit] : n \in 0..(chunk + 1)}

ShortUpdated == UNION {[1..n -> Bit] : n \in 0..(chunk + 2)}

Periodic(n, p) == [i \in 1..n |-> (i - 1) % p]

Zeros(n) == [i \in 1..n |-> 0]

\* An original of 2 * chunk bytes whose first and last windows differ and
\* have the same weak hash: they end in <<1, 0>> and in <<0, 11>>.
Colliding == Zeros(chunk - 2) \o <<1, 0>> \o Zeros(chunk - 2) \o <<0, 11>>

LongOriginals ==
    {Periodic(n, p) : n \in {2 * chunk, 2 * chunk + 1}, p \in 1..(2 * chunk + 1)}
        \cup {Colliding}

Edits(file) ==
    {m1 \o SubSeq(file, 1, chunk) \o m2 \o SubSeq(file, q + 1, Len(file)) \o m3 :
        q \in {chunk, chunk + 1}, m1 \in FilesBetween(0, 1),
        m2 \in FilesBetween(0, MaxInsert), m3 \in FilesBetween(0, 1)}

Originals == ShortOriginals \cup LongOriginals

UpdatedFor(file) == IF file \in LongOriginals THEN Edits(file) ELSE ShortUpdated

\* deltaFile before writeStructToFile is called for the Delta file.
NoFile == <<>>

\* A Go map: the empty map, assignment m[k] = v, and the read m[k] that
\* yields the zero value when the key is absent.
EmptyMap == [k \in {} |-> 0]

\* A plausible slip: a key already present keeps its value.
MapPut_KeepFirst(m, k, v) == [x \in (DOMAIN m) \cup {k} |-> IF x \in DOMAIN m THEN m[x] ELSE v]

MapPut(m, k, v) == [x \in (DOMAIN m) \cup {k} |-> IF x = k THEN v ELSE m[x]]

\* A plausible slip: head and tail as they were before the loop advanced them.
StrongSignature_Stale(strongHash, h, t) == [Hash |-> strongHash, Head |-> h - 1, Tail |-> t - 1]

\* models.StrongSignature{Hash, Head, Tail}
StrongSignature(strongHash, h, t) == [Hash |-> strongHash, Head |-> h, Tail |-> t]

\* models.CMD with every field at its zero value.
ZeroCMD ==
    [Verbose |-> FALSE, SignatureMode |-> FALSE, DeltaMode |-> FALSE, OriginalFile |-> "",
     SignatureFile |-> "", UpdatedFile |-> "", DeltaFile |-> ""]

\* applied before any function has been applied on its own.
NotApplied == [fn |-> "", args |-> <<>>, result |-> <<>>, steps |-> <<>>]

ZeroBlock == [Head |-> 0, Tail |-> 0, IsModified |-> FALSE, Value |-> <<>>]

MapGetBlock(m, k) == IF k \in DOMAIN m THEN m[k] ELSE ZeroBlock

----------------------------------------------------------------------------
(* Reader: bufio.Reader over a file *)

\* fault is the error the next read fails with (nil: the read goes through).
NewReader(data) == [data |-> data, off |-> 0, fault |-> nil]

\* The reader when the device fails the next read with error e.
Failing(r, e) == [r EXCEPT !.fault = e]

\* Read(p) with len(p) = n: copies what is available, up to n bytes;
\* io.EOF when nothing is left.
Read(r, n) ==
    LET avail == Len(r.data) - r.off
        k == Min(n, avail)
    IN  IF r.fault # nil
        THEN [n |-> 0, bytes |-> <<>>, err |-> r.fault, reader |-> r]
        ELSE IF avail = 0
        THEN [n |-> 0, bytes |-> <<>>, err |-> ioEOF, reader |-> r]
        ELSE [n |-> k, bytes |-> SubSeq(r.data, r.off + 1, r.off + k), err |-> nil,
              reader |-> [r EXCEPT !.off = @ + k]]

ReadByte(r) ==
    IF r.fault # nil
    THEN [byte |-> 0, err |-> r.fault, reader |-> r]
    ELSE IF r.off >= Len(r.data)
    THEN [byte |-> 0, err |-> ioEOF, reader |-> r]
    ELSE [byte |-> r.data[r.off + 1], err |-> nil, reader |-> [r EXCEPT !.off = @ + 1]]

----------------------------------------------------------------------------
(* Hashing *)

\* A plausible slip: the host remainder operator, whose sign follows x.
modulo_HostRemainder(x, y) == IF x >= 0 THEN x % y ELSE 0 - ((0 - x) % y)

\* new(big.Int).Mod(x, y): Euclidean modulus (TLA+ % is Euclidean for y > 0).
modulo(x, y) == x % y

\* int64(math.Pow(float64(seed), float64(e)))
Pow(b, e) == b ^ e

RECURSIVE weakSum(_, _, _)
\* The loop of generateWeakHash from index i on, with the multiplier it has there.
weakSum(buf, i, multiplier) ==
    IF i > Len(buf) THEN 0
    ELSE buf[i] * Pow(seed, multiplier) + weakSum(buf, i + 1, multiplier - 1)

generateWeakHash(buf, chunkSize) == modulo(weakSum(buf, 1, chunkSize - 1), mod)

\* A plausible slip: the evicted byte is weighted seed^chunkSize, not seed^(chunkSize-1).
rollWeakHash_WrongPower(hash, initialByte, nextByte, chunkSize) ==
    LET hashedInitialByte == initialByte * Pow(seed, chunkSize)
        u1 == hash - modulo(hashedInitialByte, mod)
        u2 == u1 * seed
        u3 == modulo(u2, mod) + nextByte
    IN  modulo(u3, mod)

rollWeakHash(hash, initialByte, nextByte, chunkSize) ==
    LET hashedInitialByte == initialByte * Pow(seed, chunkSize - 1)
        u1 == hash - modulo(hashedInitialByte, mod)
        u2 == u1 * seed
        u3 == modulo(u2, mod) + nextByte
    IN  modulo(u3, mod)

generateStrongHash(buf, chunkSize) == buf

-----------------------------------------------------------------------------
(* Hashing at the source's parameters.  chunk = 16, seed = 11 and           *)
(* mod = 10^11 + 9 give values of up to 19 decimal digits, so the int64     *)
(* values of generateWeakHash and rollWeakHash are kept here as a sign and  *)
(* a magnitude in decimal digits, least significant first, and computed     *)
(* exactly; int64 holds the exact value as long as it lies in               *)
(* -2^63 .. 2^63 - 1.                                                       *)

\* chunk as the source sets it.
sourceChunk == 16

RECURSIVE digitsOf(_)
\* The digits of a natural number n.
digitsOf(n) == IF n = 0 THEN <<>> ELSE <<n % 10>> \o digitsOf(n \div 10)

RECURSIVE trim(_)
\* a without leading zeros (zero is the empty sequence).
trim(a) ==
    IF a = <<>> THEN a
    ELSE IF a[Len(a)] = 0 THEN trim(SubSeq(a, 1, Len(a) - 1)) ELSE a

digit(a, i) == IF i <= Len(a) THEN a[i] ELSE 0

RECURSIVE addFrom(_, _, _, _)
addFrom(a, b, i, carry) ==
    IF i > Len(a) /\ i > Len(b) THEN digitsOf(carry)
    ELSE LET s == digit(a, i) + digit(b, i) + carry
         IN  <<s % 10>> \o addFrom(a, b, i + 1, s \div 10)

natAdd(a, b) == addFrom(a, b, 1, 0)

RECURSIVE subFrom(_, _, _, _)
subFrom(a, b, i, borrow) ==
    IF i > Len(a) THEN <<>>
    ELSE LET d == digit(a, i) - digit(b, i) - borrow
         IN  <<(d + 10) % 10>> \o subFrom(a, b, i + 1, IF d < 0 THEN 1 ELSE 0)

\* a - b for a >= b.
natSub(a, b) == trim(subFrom(a, b, 1, 0))

RECURSIVE mulFrom(_, _, _, _)
mulFrom(a, k, i, carry) ==
    IF i > Len(a) THEN digitsOf(carry)
    ELSE LET p == a[i] * k + carry
         IN  <<p % 10>> \o mulFrom(a, k, i + 1, p \div 10)

\* a * k for a natural number k below 2^20.
natMul(a, k) == trim(mulFrom(a, k, 1, 0))

RECURSIVE lessFrom(_, _, _)
lessFrom(a, b, i) ==
    IF i = 0 THEN FALSE
    ELSE IF a[i] # b[i] THEN a[i] < b[i] ELSE lessFrom(a, b, i - 1)

\* a < b.
natLess(a, b) == IF Len(a) # Len(b) THEN Len(a) < Len(b) ELSE lessFrom(a, b, Len(a))

\* a * 10^k.
shift(a, k) == IF a = <<>> \/ k = 0 THEN a ELSE [i \in 1..k |-> 0] \o a

RECURSIVE modFrom(_, _, _)
\* Long division: m * 10^k is taken off a while it fits, for k downwards.
modFrom(a, m, k) ==
    IF k < 0 THEN a
    ELSE IF natLess(a, shift(m, k)) THEN modFrom(a, m, k - 1)
    ELSE modFrom(natSub(a, shift(m, k)), m, k)

\* The remainder of a by m > 0.
natMod(a, m) == modFrom(a, m, IF Len(a) > Len(m) THEN Len(a) - Len(m) ELSE 0)

RECURSIVE powFrom(_, _, _)
\* acc * b^e.
powFrom(acc, b, e) == IF e = 0 \/ acc = <<>> THEN acc ELSE powFrom(natMul(acc, b), b, e - 1)

\* b^e for a natural number b below 2^20.
natPow(b, e) == powFrom(<<1>>, b, e)

\* int64(n) for a natural number n.
int64(n) == [neg |-> FALSE, mag |-> digitsOf(n)]

int64Add(x, y) ==
    IF x.neg = y.neg THEN [neg |-> x.neg, mag |-> natAdd(x.mag, y.mag)]
    ELSE IF natLess(x.mag, y.mag) THEN [neg |-> y.neg, mag |-> natSub(y.mag, x.mag)]
    ELSE LET d == natSub(x.mag, y.mag) IN [neg |-> x.neg /\ d # <<>>, mag |-> d]

int64Sub(x, y) == int64Add(x, [neg |-> ~y.neg /\ y.mag # <<>>, mag |-> y.mag])

\* x * k for a natural number k below 2^20.
int64Mul(x, k) ==
    LET m == natMul(x.mag, k) IN [neg |-> x.neg /\ m # <<>>, mag |-> m]

\* The int64 written in decimal, most significant digit first.
decimal(s) == [neg |-> FALSE, mag |-> [i \in 1..Len(s) |-> s[Len(s) + 1 - i]]]

\* math.MaxInt64 = 2^63 - 1.
MaxInt64 == decimal(<<9, 2, 2, 3, 3, 7, 2, 0, 3, 6, 8, 5, 4, 7, 7, 5, 8, 0, 7>>)

\* 2^53: every integer of magnitude up to it is a float64.
MaxExactFloat64 == decimal(<<9, 0, 0, 7, 1, 9, 9, 2, 5, 4, 7, 4, 0, 9, 9, 2>>)

\* Whether the exact value x is one int64 holds: -2^63 <= x <= 2^63 - 1.
fitsInt64(x) ==
    IF x.neg THEN ~natLess(natAdd(MaxInt64.mag, <<1>>), x.mag)
    ELSE ~natLess(MaxInt64.mag, x.mag)

\* mod as the source sets it: 100000000009.
sourceMod == int64Add([neg |-> FALSE, mag |-> natPow(10, 11)], int64(9))

\* new(big.Int).Mod(x, y) for y > 0: the Euclidean modulus.
moduloInt64(x, y) ==
    LET r == natMod(x.mag, y.mag)
    IN  IF ~x.neg \/ r = <<>> THEN [neg |-> FALSE, mag |-> r]
        ELSE [neg |-> FALSE, mag |-> natSub(y.mag, r)]

\* A plausible slip: one factor of seed too many.
PowInt64_OneMore(b, e) == [neg |-> FALSE, mag |-> natPow(b, e + 1)]

\* int64(math.Pow(float64(b), float64(e))): exact while b^e is below 2^53.
PowInt64(b, e) == [neg |-> FALSE, mag |-> natPow(b, e)]

RECURSIVE weakSteps(_, _, _, _)
\* The loop of generateWeakHash from index i on: the int64 values it computes
\* in order (value, then hash), starting from the hash it has there.
weakSteps(buf, i, multiplier, hash) ==
    IF i > Len(buf) THEN <<>>
    ELSE LET value == int64Mul(PowInt64(seed, multiplier), buf[i])
             next == int64Add(hash, value)
         IN  <<value, next>> \o weakSteps(buf, i + 1, multiplier - 1, next)

\* generateWeakHash over int64: result is the hash returned, steps the int64
\* values computed on the way, unreduced.
generateWeakHashInt64(buf, chunkSize) ==
    LET steps == weakSteps(buf, 1, chunkSize - 1, int64(0))
        hash == IF steps = <<>> THEN int64(0) ELSE steps[Len(steps)]
    IN  [result |-> moduloInt64(hash, sourceMod), steps |-> steps]

\* A plausible slip: the evicted byte is weighted seed^chunkSize, not seed^(chunkSize-1).
rollWeakHashInt64_WrongPower(hash, initialByte, nextByte, chunkSize) ==
    LET hashedInitialByte == int64Mul(PowInt64(seed, chunkSize), initialByte)
        u1 == int64Sub(hash, moduloInt64(hashedInitialByte, sourceMod))
        u2 == int64Mul(u1, seed)
        u3 == int64Add(moduloInt64(u2, sourceMod), int64(nextByte))
    IN  [result |-> moduloInt64(u3, sourceMod), steps |-> <<hashedInitialByte, u1, u2, u3>>]

\* rollWeakHash over int64: result and the int64 values computed on the way.
rollWeakHashInt64(hash, initialByte, nextByte, chunkSize) ==
    LET hashedInitialByte == int64Mul(PowInt64(seed, chunkSize - 1), initialByte)
        u1 == int64Sub(hash, moduloInt64(hashedInitialByte, sourceMod))
        u2 == int64Mul(u1, seed)
        u3 == int64Add(moduloInt64(u2, sourceMod), int64(nextByte))
    IN  [result |-> moduloInt64(u3, sourceMod), steps |-> <<hashedInitialByte, u1, u2, u3>>]

\* sync_test.go: testBuffer, the window 'abcdefghijklmnop'.
testBuffer == [i \in 1..sourceChunk |-> 96 + i]

\* The windows hashed at the source's parameters: every byte the same (0,
\* 255), the test window, one byte 255 among zeros at each position, and a
\* run of 255 of each length at either end.
Int64Windows ==
    {[i \in 1..sourceChunk |-> b] : b \in {0, 255}}
    \cup {testBuffer}
    \cup {[i \in 1..sourceChunk |-> IF i = k THEN 255 ELSE 0] : k \in 1..sourceChunk}
    \cup {[i \in 1..sourceChunk |-> IF i <= k THEN 255 ELSE 0] : k \in 1..sourceChunk}
    \cup {[i \in 1..sourceChunk |-> IF i > k THEN 255 ELSE 0] : k \in 1..sourceChunk}

\* The bytes rolled in at the source's parameters: 0, 'q', 255.
Int64Bytes == {0, 113, 255}

----------------------------------------------------------------------------
(* Window *)

pop(buf) == [buffer |-> Tail(buf), initialByte |-> Head(buf)]

push(buf, item) == Append(buf, item)

populateBuffer(r, chunkSize) ==
    LET rd == Read(r, chunkSize)
    IN  IF rd.err # nil
        THEN [buffer |-> <<>>, err |-> IF rd.err = ioEOF THEN EndOfFileError ELSE rd.err,
              reader |-> rd.reader]
        ELSE IF rd.n = 0
        THEN [buffer |-> <<>>, err |-> EndOfFileError, reader |-> rd.reader]
        ELSE [buffer |-> rd.bytes \o Zeros(chunkSize - rd.n), err |-> nil,
              reader |-> rd.reader]

roll(r, buf) ==
    LET rb == ReadByte(r)
        p == pop(buf)
    IN  IF rb.err # nil
        THEN [buffer |-> <<>>, initialByte |-> 0, nextByte |-> 0,
              err |-> IF rb.err = ioEOF THEN EndOfFileError ELSE rb.err,
              reader |-> rb.reader]
        ELSE [buffer |-> push(p.buffer, rb.byte), initialByte |-> p.initialByte,
              nextByte |-> rb.byte, err |-> nil, reader |-> rb.reader]

----------------------------------------------------------------------------
(* Signature lookup *)

\* A plausible slip: the strong hash is not compared.
compareChecksums_WeakOnly(sig, buf, wh) ==
    IF wh \in DOMAIN sig
    THEN [exists |-> TRUE, head |-> sig[wh].Head, tail |-> sig[wh].Tail]
    ELSE [exists |-> FALSE, head |-> -1, tail |-> -1]

compareChecksums(sig, buf, wh) ==
    IF wh \in DOMAIN sig /\ generateStrongHash(buf, chunk) = sig[wh].Hash
    THEN [exists |-> TRUE, head |-> sig[wh].Head, tail |-> sig[wh].Tail]
    ELSE [exists |-> FALSE, head |-> -1, tail |-> -1]

\* A plausible slip: a lookup that misses leaves a zero entry under the key
\* (an indexing that inserts, or a write-back of the zero item).
signatureAfterLookup_Inserts(sig, wh) ==
    IF wh \in DOMAIN sig THEN sig ELSE MapPut(sig, wh, StrongSignature(<<>>, 0, 0))

\* The Signature after `item, exists := signature[weakHash]`: the map is
\* shared with the caller, and the two-value index expression only reads it.
signatureAfterLookup(sig, wh) == sig

----------------------------------------------------------------------------
(* Block segmentation *)

\* A plausible slip: only a modified block is added at end of file.
flushBlock_OnlyModified(d, bHead, b) == IF b.IsModified THEN MapPut(d, bHead, b) ELSE d

\* GenerateDelta at end of file: delta[blockHead] = block.
flushBlock(d, bHead, b) == MapPut(d, bHead, b)

\* A plausible slip: the whole first window goes into the initial modified block.
initialBlock_WholeWindow(c, buf, dHead) ==
    IF c.exists
    THEN [Head |-> c.head, Tail |-> c.tail, IsModified |-> ~c.exists, Value |-> <<>>]
    ELSE [Head |-> dHead, Tail |-> dHead, IsModified |-> ~c.exists, Value |-> buf]

\* The open block GenerateDelta starts with, from the lookup of the first window.
initialBlock(c, buf, dHead) ==
    IF c.exists
    THEN [Head |-> c.head, Tail |-> c.tail, IsModified |-> ~c.exists, Value |-> <<>>]
    ELSE [Head |-> dHead, Tail |-> dHead, IsModified |-> ~c.exists, Value |-> <<buf[1]>>]

\* The check GenerateDelta makes after its loop.
hasNoChanges(d) == Cardinality(DOMAIN d) = 1 /\ ~MapGetBlock(d, 0).IsModified

\* A plausible slip: the modified block is emitted without removing the bytes
\* of the match that follows.
reduceBlock_NoTruncation(b) == [panic |-> FALSE, block |-> b]

\* A plausible slip: one byte too many is removed.
reduceBlock_OffByOne(b) ==
    LET newTail == b.Tail - chunk
    IN  IF newTail + 1 < 0 \/ newTail + 1 > Len(b.Value)
        THEN [panic |-> TRUE, block |-> b]
        ELSE [panic |-> FALSE,
              block |-> [b EXCEPT !.Tail = newTail, !.Value = SubSeq(b.Value, 1, newTail + 1)]]

\* generateMatchedBlock: the modified block cut back by the chunk - 1 bytes that
\* belong to the match found.  block.Value[0:block.Tail+1] panics when the
\* bound is negative (or beyond the slice).
reduceBlock(b) ==
    LET newTail == b.Tail + 1 - chunk
    IN  IF newTail + 1 < 0 \/ newTail + 1 > Len(b.Value)
        THEN [panic |-> TRUE, block |-> b]
        ELSE [panic |-> FALSE,
              block |-> [b EXCEPT !.Tail = newTail, !.Value = SubSeq(b.Value, 1, newTail + 1)]]

\* A plausible slip: the negation of rollExists is forgotten.
newMatchedBlock_FlagFlipped(rollHead, rollTail, rollExists) ==
    [Head |-> rollHead, Tail |-> rollTail, IsModified |-> rollExists, Value |-> <<>>]

\* generateMatchedBlock: the matched block opened when a match follows a miss.
newMatchedBlock(rollHead, rollTail, rollExists) ==
    [Head |-> rollHead, Tail |-> rollTail, IsModified |-> ~rollExists, Value |-> <<>>]

\* A plausible slip: the tail of the lookup replaces the tail of the open block.
extendBlock_TailFromLookup(b, rollHead, rollTail) == [b EXCEPT !.Tail = rollTail]

\* generateMatchedBlock: block.Tail++ when the window before matched as well;
\* rollHead and rollTail are not used.
extendBlock(b, rollHead, rollTail) == [b EXCEPT !.Tail = @ + 1]

generateMatchedBlock(d, b, ex, ibm, bHead, dHead, rollHead, rollTail, rollExists) ==
    IF ex
    THEN [delta |-> d, block |-> extendBlock(b, rollHead, rollTail), blockHead |-> bHead,
          initialBlockMatches |-> ibm, panic |-> FALSE]
    ELSE LET red == IF ~ibm THEN [panic |-> FALSE, block |-> b] ELSE reduceBlock(b)
         IN  IF red.panic
             THEN [delta |-> d, block |-> b, blockHead |-> bHead,
                   initialBlockMatches |-> ibm, panic |-> TRUE]
             ELSE [delta |-> MapPut(d, bHead, red.block),
                   block |-> newMatchedBlock(rollHead, rollTail, rollExists),
                   blockHead |-> dHead,
                   initialBlockMatches |-> TRUE, panic |-> FALSE]

\* A plausible slip: the + 1 of an inclusive range is forgotten.
nextBlockHead_OffByOne(bHead, b) == bHead + b.Tail - b.Head

\* generateMissingBlock: where the modified block that follows a matched block begins.
nextBlockHead(bHead, b) == bHead + b.Tail - b.Head + 1

\* A plausible slip: the front of the window is appended whatever the open block is.
missingByte_AlwaysFront(ibm, nextByte, buf) == buf[1]

\* generateMissingBlock: the byte appended to the open modified block.
missingByte(ibm, nextByte, buf) == IF ~ibm THEN buf[1] ELSE nextByte

generateMissingBlock(d, b, ex, ibm, bHead, nextByte, buf) ==
    IF ex
    THEN [delta |-> MapPut(d, bHead, b),
          block |-> [Head |-> 0, Tail |-> 0, IsModified |-> ex, Value |-> <<nextByte>>],
          blockHead |-> nextBlockHead(bHead, b)]
    ELSE [delta |-> d,
          block |-> [b EXCEPT !.Value = Append(@, missingByte(ibm, nextByte, buf)),
                              !.Tail = @ + 1],
          blockHead |-> bHead]

----------------------------------------------------------------------------
(* State machine *)

Init ==
    /\ pc = "idle"
    /\ original = <<>>
    /\ updated = <<>>
    /\ reader = NewReader(<<>>)
    /\ buffer = <<>>
    /\ weakHash = 0
    /\ head = 0
    /\ tail = 0
    /\ signature = EmptyMap
    /\ blockHead = 0
    /\ deltaHead = 0
    /\ deltaTail = 0
    /\ delta = EmptyMap
    /\ initialBlockMatches = TRUE
    /\ block = ZeroBlock
    /\ exists = FALSE
    /\ retDelta = EmptyMap
    /\ err = nil
    /\ priorHash = 0
    /\ evictedByte = 0
    /\ appendedByte = 0
    /\ outDelta = EmptyMap
    /\ outErr = nil
    /\ deltaFile = NoFile
    /\ cmd = ZeroCMD
    /\ verified = FALSE
    /\ exitCode = -1
    /\ logged = <<>>
    /\ calls = <<>>
    /\ applied = NotApplied

\* A plausible slip: the first window is not stored before the loop.
SignatureStart_NoFirstEntry(file) ==
    /\ pc = "idle"
    /\ original' = file
    /\ LET pb == populateBuffer(NewReader(file), chunk)
       IN  IF pb.err # nil
           THEN /\ pc' = "sigFailed"
                /\ err' = pb.err
                /\ reader' = pb.reader
                /\ signature' = EmptyMap
                /\ UNCHANGED <<buffer, weakHash, head, tail>>
           ELSE /\ pc' = "sigLoop"
                /\ err' = nil
                /\ reader' = pb.reader
                /\ buffer' = pb.buffer
                /\ weakHash' = generateWeakHash(pb.buffer, chunk)
                /\ head' = 0
                /\ tail' = chunk - 1
                /\ signature' = EmptyMap
    /\ UNCHANGED <<updated, deltaVars, hashVars, driverVars, mainVars>>

\* GenerateSignature(reader) up to its loop: prime the window, store the first entry.
SignatureStart(file) ==
    /\ pc = "idle"
    /\ original' = file
    /\ LET pb == populateBuffer(NewReader(file), chunk)
           wh == generateWeakHash(pb.buffer, chunk)
       IN  IF pb.err # nil
           THEN /\ pc' = "sigFailed"
                /\ err' = pb.err
                /\ reader' = pb.reader
                /\ signature' = EmptyMap
                /\ UNCHANGED <<buffer, weakHash, head, tail>>
           ELSE /\ pc' = "sigLoop"
                /\ err' = nil
                /\ reader' = pb.reader
                /\ buffer' = pb.buffer
                /\ weakHash' = wh
                /\ head' = 0
                /\ tail' = chunk - 1
                /\ signature' = MapPut(EmptyMap, wh,
                                    StrongSignature(generateStrongHash(pb.buffer, chunk),
                                                    0, chunk - 1))
    /\ UNCHANGED <<updated, deltaVars, hashVars, driverVars, mainVars>>

\* One iteration of GenerateSignature's loop in which the roll succeeds.
SignatureRoll ==
    /\ pc = "sigLoop"
    /\ LET r == roll(reader, buffer)
           wh == rollWeakHash(weakHash, r.initialByte, r.nextByte, chunk)
       IN  /\ r.err = nil
           /\ head' = head + 1
           /\ tail' = tail + 1
           /\ reader' = r.reader
           /\ buffer' = r.buffer
           /\ weakHash' = wh
           /\ signature' = MapPut(signature, wh,
                               StrongSignature(generateStrongHash(r.buffer, chunk),
                                               head + 1, tail + 1))
    /\ UNCHANGED <<pc, original, updated, deltaVars, err, hashVars, driverVars, mainVars>>

\* The iteration of GenerateSignature's loop in which the roll meets end of file.
SignatureEOF ==
    /\ pc = "sigLoop"
    /\ LET r == roll(reader, buffer)
       IN  /\ r.err = EndOfFileError
           /\ reader' = r.reader
           /\ buffer' = r.buffer
    /\ head' = head + 1
    /\ tail' = tail + 1
    /\ pc' = "sigDone"
    /\ UNCHANGED <<original, updated, weakHash, signature, deltaVars, err, hashVars, driverVars, mainVars>>

\* GenerateSignature(reader) when the priming read fails with an error other
\* than io.EOF: it returns the empty Signature and that error.
SignatureStartIOError(file, e) ==
    /\ pc = "idle"
    /\ original' = file
    /\ LET pb == populateBuffer(Failing(NewReader(file), e), chunk)
       IN  /\ pb.err # nil
           /\ pc' = "sigFailed"
           /\ err' = pb.err
           /\ reader' = pb.reader
           /\ signature' = EmptyMap
    /\ UNCHANGED <<updated, buffer, weakHash, head, tail, deltaVars, hashVars, driverVars, mainVars>>

\* The iteration of GenerateSignature's loop in which the roll fails with an
\* error other than end of file: the entries gathered are dropped.
SignatureIOError(e) ==
    /\ pc = "sigLoop"
    /\ LET r == roll(Failing(reader, e), buffer)
       IN  /\ r.err \notin {nil, EndOfFileError}
           /\ reader' = r.reader
           /\ buffer' = r.buffer
           /\ err' = r.err
    /\ head' = head + 1
    /\ tail' = tail + 1
    /\ signature' = EmptyMap
    /\ pc' = "sigFailed"
    /\ UNCHANGED <<original, updated, weakHash, deltaVars, hashVars, driverVars, mainVars>>

\* GenerateDelta(reader, signature) up to its loop.
DeltaStart(file) ==
    /\ pc = "sigDone"
    /\ updated' = file
    /\ blockHead' = 0
    /\ deltaHead' = 0
    /\ deltaTail' = chunk - 1
    /\ delta' = EmptyMap
    /\ LET pb == populateBuffer(NewReader(file), chunk)
           wh == generateWeakHash(pb.buffer, chunk)
           c == compareChecksums(signature, pb.buffer, wh)
       IN  IF pb.err # nil
           THEN /\ pc' = "done"
                /\ err' = pb.err
                /\ reader' = pb.reader
                /\ retDelta' = EmptyMap
                /\ UNCHANGED <<buffer, weakHash, initialBlockMatches, block, exists, signature>>
           ELSE /\ pc' = "deltaLoop"
                /\ err' = nil
                /\ reader' = pb.reader
                /\ buffer' = pb.buffer
                /\ weakHash' = wh
                /\ signature' = signatureAfterLookup(signature, wh)
                /\ exists' = c.exists
                /\ block' = initialBlock(c, pb.buffer, 0)
                /\ initialBlockMatches' = c.exists
                /\ UNCHANGED retDelta
    /\ UNCHANGED <<original, head, tail, hashVars, driverVars, mainVars>>

\* One iteration of GenerateDelta's loop in which the roll succeeds.
DeltaRoll ==
    /\ pc = "deltaLoop"
    /\ LET r == roll(reader, buffer)
           wh == rollWeakHash(weakHash, r.initialByte, r.nextByte, chunk)
           c == compareChecksums(signature, r.buffer, wh)
           g == IF c.exists
                THEN generateMatchedBlock(delta, block, exists, initialBlockMatches,
                                          blockHead, deltaHead + 1, c.head, c.tail, c.exists)
                ELSE generateMissingBlock(delta, block, exists, initialBlockMatches,
                                          blockHead, r.nextByte, r.buffer)
       IN  /\ r.err = nil
           /\ reader' = r.reader
           /\ buffer' = r.buffer
           /\ deltaHead' = deltaHead + 1
           /\ deltaTail' = deltaTail + 1
           /\ weakHash' = wh
           /\ signature' = signatureAfterLookup(signature, wh)
           /\ IF c.exists /\ g.panic
              THEN /\ pc' = "panic"
                   /\ UNCHANGED <<delta, block, blockHead, initialBlockMatches, exists>>
              ELSE /\ pc' = pc
                   /\ delta' = g.delta
                   /\ block' = g.block
                   /\ blockHead' = g.blockHead
                   /\ initialBlockMatches' = IF c.exists THEN g.initialBlockMatches
                                             ELSE initialBlockMatches
                   /\ exists' = c.exists
    /\ UNCHANGED <<original, updated, head, tail, retDelta, err, hashVars, driverVars, mainVars>>

\* The iteration in which the roll meets end of file: the open block is added
\* and GenerateDelta returns.
DeltaEOF ==
    /\ pc = "deltaLoop"
    /\ LET r == roll(reader, buffer)
           d == flushBlock(delta, blockHead, block)
           noChanges == hasNoChanges(d)
       IN  /\ r.err = EndOfFileError
           /\ reader' = r.reader
           /\ buffer' = r.buffer
           /\ delta' = d
           /\ retDelta' = IF noChanges THEN EmptyMap ELSE d
           /\ err' = IF noChanges THEN UpdatedFileHasNoChangesError ELSE nil
    /\ pc' = "done"
    /\ UNCHANGED <<original, updated, weakHash, sigVars, blockHead, deltaHead, deltaTail,
                   initialBlockMatches, block, exists, hashVars, driverVars, mainVars>>

\* GenerateDelta(reader, signature) when the priming read fails with an error
\* other than io.EOF: it returns the empty Delta and that error.
DeltaStartIOError(file, e) ==
    /\ pc = "sigDone"
    /\ updated' = file
    /\ blockHead' = 0
    /\ deltaHead' = 0
    /\ deltaTail' = chunk - 1
    /\ delta' = EmptyMap
    /\ LET pb == populateBuffer(Failing(NewReader(file), e), chunk)
       IN  /\ pb.err # nil
           /\ pc' = "deltaFailed"
           /\ err' = pb.err
           /\ reader' = pb.reader
           /\ retDelta' = EmptyMap
    /\ UNCHANGED <<original, buffer, weakHash, initialBlockMatches, block, exists,
                   sigVars, hashVars, driverVars, mainVars>>

\* A plausible slip: the blocks gathered so far are returned with the error.
DeltaIOError_ReturnsPartial(e) ==
    /\ pc = "deltaLoop"
    /\ LET r == roll(Failing(reader, e), buffer)
       IN  /\ r.err \notin {nil, EndOfFileError}
           /\ reader' = r.reader
           /\ buffer' = r.buffer
           /\ err' = r.err
    /\ retDelta' = delta
    /\ pc' = "deltaFailed"
    /\ UNCHANGED <<original, updated, weakHash, sigVars, blockHead, deltaHead, deltaTail,
                   delta, initialBlockMatches, block, exists, hashVars, driverVars, mainVars>>

\* The iteration of GenerateDelta's loop in which the roll fails with an error
\* other than end of file: the blocks gathered are dropped.
DeltaIOError(e) ==
    /\ pc = "deltaLoop"
    /\ LET r == roll(Failing(reader, e), buffer)
       IN  /\ r.err \notin {nil, EndOfFileError}
           /\ reader' = r.reader
           /\ buffer' = r.buffer
           /\ err' = r.err
    /\ retDelta' = EmptyMap
    /\ pc' = "deltaFailed"
    /\ UNCHANGED <<original, updated, weakHash, sigVars, blockHead, deltaHead, deltaTail,
                   delta, initialBlockMatches, block, exists, hashVars, driverVars, mainVars>>

----------------------------------------------------------------------------
(* getDelta: open the updated file, generate the Delta, write it to file. *)
(* DeltaStart .. DeltaIOError are its call of generateDelta on the file    *)
(* opened.                                                                 *)

\* getDelta: the error returned when openFile failed with e.
openFailure(e) ==
    IF e = FileDoesNotExistError THEN UpdatedFileDoesNotExistError
    ELSE IF e = SearchingForFileButFoundDirError THEN UpdatedFileIsFolderError
    ELSE e

\* A plausible slip: the no-changes error is replaced like every other.
generateFailure_AlwaysGeneric(e) == UnableToGenerateDeltaError

\* getDelta: the error returned when generateDelta failed with e.
generateFailure(e) ==
    IF e = UpdatedFileHasNoChangesError THEN e ELSE UnableToGenerateDeltaError

\* getDelta: the error returned when writeStructToFile failed with e.
writeFailure(e) ==
    IF e = UnableToCreateFileError THEN UnableToCreateDeltaFileError
    ELSE UnableToWriteToDeltaFileError

\* openFile(cmd.UpdatedFile) fails with e: getDelta returns at once.
GetDeltaOpenError(e) ==
    /\ pc = "sigDone"
    /\ err' = e
    /\ outDelta' = EmptyMap
    /\ outErr' = openFailure(e)
    /\ pc' = "openFailed"
    /\ UNCHANGED <<original, updated, reader, buffer, weakHash, sigVars, deltaVars,
                   hashVars, deltaFile, mainVars>>

\* generateDelta has returned an error: getDelta returns without writing.
GetDeltaGenerateError ==
    /\ pc \in {"done", "deltaFailed"}
    /\ err # nil
    /\ outDelta' = EmptyMap
    /\ outErr' = generateFailure(err)
    /\ pc' = "generateFailed"
    /\ UNCHANGED <<original, updated, reader, buffer, weakHash, sigVars, deltaVars,
                   hashVars, err, deltaFile, mainVars>>

\* generateDelta has returned a Delta: getDelta hands it to writeStructToFile,
\* which returns w, and returns.
GetDeltaWrite(w) ==
    /\ pc = "done"
    /\ err = nil
    /\ deltaFile' = Append(deltaFile, retDelta)
    /\ err' = w
    /\ IF w # nil
       THEN /\ outDelta' = EmptyMap
            /\ outErr' = writeFailure(w)
            /\ pc' = "writeFailed"
       ELSE /\ outDelta' = retDelta
            /\ outErr' = nil
            /\ pc' = "written"
    /\ UNCHANGED <<original, updated, reader, buffer, weakHash, sigVars, deltaVars, hashVars, mainVars>>

Next ==
    \/ pc = "idle" /\ \E file \in Originals : SignatureStart(file)
    \/ pc = "idle" /\ \E file \in Originals, e \in ReadErrors : SignatureStartIOError(file, e)
    \/ SignatureRoll
    \/ SignatureEOF
    \/ pc = "sigLoop" /\ \E e \in ReadErrors : SignatureIOError(e)
    \/ pc = "sigDone" /\ \E file \in UpdatedFor(original) : DeltaStart(file)
    \/ pc = "sigDone" /\ \E file \in UpdatedFor(original), e \in ReadErrors :
                             DeltaStartIOError(file, e)
    \/ DeltaRoll
    \/ DeltaEOF
    \/ pc = "deltaLoop" /\ \E e \in ReadErrors : DeltaIOError(e)
    \/ pc = "sigDone" /\ \E e \in OpenErrors : GetDeltaOpenError(e)
    \/ GetDeltaGenerateError
    \/ pc = "done" /\ \E w \in WriteResults : GetDeltaWrite(w)

Spec == Init /\ [][Next]_vars

----------------------------------------------------------------------------
(* The hash functions on their own: generateWeakHash on every window over  *)
(* HashByte followed by any number of rolls, and rollWeakHash on every     *)
(* hash value in [0, mod) with every evicted and appended byte.            *)

\* generateWeakHash(buffer, chunk) of a window.
HashWindow(w) ==
    /\ pc = "idle"
    /\ pc' = "hashRoll"
    /\ buffer' = w
    /\ weakHash' = generateWeakHash(w, chunk)
    /\ UNCHANGED <<original, updated, reader, sigVars, deltaVars, err, hashVars, driverVars, mainVars>>

\* The window advances by one byte (pop, push) and the hash is rolled.
HashRoll(b) ==
    /\ pc = "hashRoll"
    /\ LET p == pop(buffer)
       IN  /\ buffer' = push(p.buffer, b)
           /\ priorHash' = weakHash
           /\ evictedByte' = p.initialByte
           /\ appendedByte' = b
           /\ weakHash' = rollWeakHash(weakHash, p.initialByte, b, chunk)
    /\ UNCHANGED <<pc, original, updated, reader, sigVars, deltaVars, err, driverVars, mainVars>>

\* rollWeakHash(h, a, b, chunk) of an arbitrary hash value.
HashRollAny(h, a, b) ==
    /\ pc = "idle"
    /\ pc' = "hashRolled"
    /\ priorHash' = h
    /\ evictedByte' = a
    /\ appendedByte' = b
    /\ weakHash' = rollWeakHash(h, a, b, chunk)
    /\ UNCHANGED <<original, updated, reader, buffer, sigVars, deltaVars, err, driverVars, mainVars>>

\* modulo(x, y) on its own, for a dividend of either sign.
ModuloApply(x, y) ==
    /\ pc = "idle"
    /\ pc' = "applied"
    /\ applied' = [fn |-> "modulo", args |-> <<x, y>>, result |-> modulo(x, y),
                   steps |-> <<>>]
    /\ UNCHANGED <<original, updated, reader, buffer, weakHash, sigVars, deltaVars, err,
                   hashVars, driverVars, cmd, verified, exitCode, logged, calls>>

\* generateWeakHash(w, 16) at the source's parameters.
HashWindowInt64(w) ==
    /\ pc = "idle"
    /\ pc' = "hashInt64"
    /\ buffer' = w
    /\ applied' = [fn |-> "generateWeakHash", args |-> <<w, sourceChunk>>,
                   result |-> generateWeakHashInt64(w, sourceChunk).result,
                   steps |-> generateWeakHashInt64(w, sourceChunk).steps]
    /\ UNCHANGED <<original, updated, reader, weakHash, sigVars, deltaVars, err,
                   hashVars, driverVars, cmd, verified, exitCode, logged, calls>>

\* The hash of the window just hashed is rolled by one byte, as roll does:
\* the byte at the front is evicted, b is appended.
HashRollInt64(b) ==
    /\ pc = "hashInt64"
    /\ pc' = "rolledInt64"
    /\ buffer' = push(pop(buffer).buffer, b)
    /\ applied' = [fn |-> "rollWeakHash",
                   args |-> <<applied.result, pop(buffer).initialByte, b, sourceChunk>>,
                   result |-> rollWeakHashInt64(applied.result, pop(buffer).initialByte,
                                                b, sourceChunk).result,
                   steps |-> rollWeakHashInt64(applied.result, pop(buffer).initialByte,
                                               b, sourceChunk).steps]
    /\ UNCHANGED <<original, updated, reader, weakHash, sigVars, deltaVars, err,
                   hashVars, driverVars, cmd, verified, exitCode, logged, calls>>

HashNext ==
    \/ pc = "idle" /\ \E w \in Int64Windows : HashWindowInt64(w)
    \/ pc = "hashInt64" /\ \E b \in Int64Bytes : HashRollInt64(b)
    \/ pc = "idle" /\ \E x \in (0 - MaxOperand)..MaxOperand, y \in 1..MaxOperand : ModuloApply(x, y)
    \/ pc = "idle" /\ \E w \in [1..chunk -> HashByte] : HashWindow(w)
    \/ pc = "hashRoll" /\ \E b \in HashByte : HashRoll(b)
    \/ pc = "idle" /\ \E h \in 0..(mod - 1), a, b \in HashByte : HashRollAny(h, a, b)

HashSpec == Init /\ [][HashNext]_vars

-----------------------------------------------------------------------------
(* main: parse and verify the command line, then run the phases the modes  *)
(* ask for.  getSignature, openSignature and getDelta are taken by what    *)
(* they return to main.                                                    *)

\* constants.go: the messages VerifyCMD logs.
ModeFlagMissingError == "Error: Must set at least one mode"
SignatureFlagsMissingError ==
    "Error: Must provide Original & Signature files when enabling Signature mode"
DeltaFlagsMissingError ==
    "Error: Must provide Signature, Updated & Delta files when enabling Delta mode"
SignatureDeltaFlagsMissingError ==
    "Error: Must provide Updated & Delta files when enabling Signature & Delta modes"

\* constants.go: errors of getSignature and openSignature.
OriginalFileDoesNotExistError == "Error: Original file does not exist"
UnableToGenerateSignatureError == "Error: Unable to generate Signature"
UnableToWriteToSignatureFileError == "Error: Unable to write to Signature file"
SignatureFileDoesNotExistError == "Error: Signature file does not exist"
UnableToOpenSignatureFileError == "Error: Unable to open Signature file"

\* Values of a file flag: not given (the flag's default), or a name.
FileNames == {"", "a.txt"}

\* The command lines flag.Parse can produce.
CMDs ==
    [Verbose : BOOLEAN, SignatureMode : BOOLEAN, DeltaMode : BOOLEAN,
     OriginalFile : FileNames, SignatureFile : FileNames,
     UpdatedFile : FileNames, DeltaFile : FileNames]

\* What getSignature, openSignature and getDelta can return as error.
GetSignatureResults ==
    {nil, OriginalFileDoesNotExistError, UnableToGenerateSignatureError,
     UnableToWriteToSignatureFileError}
OpenSignatureResults == {nil, SignatureFileDoesNotExistError, UnableToOpenSignatureFileError}
GetDeltaResults ==
    {nil, UpdatedFileDoesNotExistError, UpdatedFileHasNoChangesError,
     UnableToGenerateDeltaError, UnableToWriteToDeltaFileError}

\* utils.Logger: the message is logged only when verbose is set.
Logger(log, message, verbose) == IF verbose THEN Append(log, message) ELSE log

\* cmd.VerifyCMD without the check of the Delta file in delta-only mode.
VerifyCMD_NoDeltaFileCheck(c) ==
    IF ~c.SignatureMode /\ ~c.DeltaMode
    THEN [ok |-> FALSE, message |-> ModeFlagMissingError]
    ELSE IF c.SignatureMode /\ (c.OriginalFile = "" \/ c.SignatureFile = "")
    THEN [ok |-> FALSE, message |-> SignatureFlagsMissingError]
    ELSE IF c.DeltaMode /\ c.SignatureMode /\ (c.UpdatedFile = "" \/ c.DeltaFile = "")
    THEN [ok |-> FALSE, message |-> SignatureDeltaFlagsMissingError]
    ELSE IF c.DeltaMode /\ ~c.SignatureMode
            /\ (c.SignatureFile = "" \/ c.UpdatedFile = "")
    THEN [ok |-> FALSE, message |-> DeltaFlagsMissingError]
    ELSE [ok |-> TRUE, message |-> ""]

\* cmd.VerifyCMD: ok is the value returned, message the line it logs when it
\* returns false.
VerifyCMD(c) ==
    IF ~c.SignatureMode /\ ~c.DeltaMode
    THEN [ok |-> FALSE, message |-> ModeFlagMissingError]
    ELSE IF c.SignatureMode /\ (c.OriginalFile = "" \/ c.SignatureFile = "")
    THEN [ok |-> FALSE, message |-> SignatureFlagsMissingError]
    ELSE IF c.DeltaMode /\ c.SignatureMode /\ (c.UpdatedFile = "" \/ c.DeltaFile = "")
    THEN [ok |-> FALSE, message |-> SignatureDeltaFlagsMissingError]
    ELSE IF c.DeltaMode /\ ~c.SignatureMode
            /\ (c.SignatureFile = "" \/ c.UpdatedFile = "" \/ c.DeltaFile = "")
    THEN [ok |-> FALSE, message |-> DeltaFlagsMissingError]
    ELSE [ok |-> TRUE, message |-> ""]

\* What main leaves alone: the state of the two builders and of getDelta.
builderVars ==
    <<original, updated, reader, buffer, weakHash, sigVars, deltaVars, hashVars,
      driverVars, applied>>

\* main, `cmd := parseCMD()`: ParseCMD returns the flags and logs them when
\* -v is set.
MainParse(c) ==
    /\ pc = "idle"
    /\ cmd' = c
    /\ calls' = Append(calls, "parseCMD")
    /\ logged' = Logger(logged, "CMD", c.Verbose)
    /\ pc' = "parsed"
    /\ UNCHANGED <<builderVars, err, verified, exitCode>>

\* main, `if !verifyCMD(cmd) { return }`: VerifyCMD logs its message; main
\* returns, and a Go program whose main returns exits with status 0.
MainVerify ==
    /\ pc = "parsed"
    /\ calls' = Append(calls, "verifyCMD")
    /\ verified' = VerifyCMD(cmd).ok
    /\ IF VerifyCMD(cmd).ok
       THEN /\ pc' = "verified"
            /\ UNCHANGED <<logged, exitCode>>
       ELSE /\ logged' = Logger(logged, VerifyCMD(cmd).message, TRUE)
            /\ exitCode' = 0
            /\ pc' = "exit"
    /\ UNCHANGED <<builderVars, err, cmd>>

\* main, `if cmd.SignatureMode { signature, err = getSignature(cmd) ... }`:
\* an error is logged and main returns; without DeltaMode main is over.
MainGetSignature(e) ==
    /\ pc = "verified"
    /\ cmd.SignatureMode
    /\ calls' = Append(calls, "getSignature")
    /\ err' = e
    /\ IF e # nil
       THEN /\ logged' = Logger(logged, e, TRUE)
            /\ exitCode' = 0
            /\ pc' = "exit"
       ELSE /\ logged' = logged
            /\ IF cmd.DeltaMode
               THEN pc' = "signed" /\ exitCode' = exitCode
               ELSE pc' = "exit" /\ exitCode' = 0
    /\ UNCHANGED <<builderVars, cmd, verified>>

\* main, `if !cmd.SignatureMode { signature, err = openSignature(...) ... }`
\* inside `if cmd.DeltaMode`.
MainOpenSignature(e) ==
    /\ pc = "verified"
    /\ ~cmd.SignatureMode
    /\ cmd.DeltaMode
    /\ calls' = Append(calls, "openSignature")
    /\ err' = e
    /\ IF e # nil
       THEN /\ logged' = Logger(logged, e, TRUE)
            /\ exitCode' = 0
            /\ pc' = "exit"
       ELSE /\ pc' = "signed"
            /\ UNCHANGED <<logged, exitCode>>
    /\ UNCHANGED <<builderVars, cmd, verified>>

\* main, `_, err = getDelta(cmd, signature)`: an error is logged; main
\* returns either way.
MainGetDelta(e) ==
    /\ pc = "signed"
    /\ cmd.DeltaMode
    /\ calls' = Append(calls, "getDelta")
    /\ err' = e
    /\ logged' = IF e # nil THEN Logger(logged, e, TRUE) ELSE logged
    /\ exitCode' = 0
    /\ pc' = "exit"
    /\ UNCHANGED <<builderVars, cmd, verified>>

\* main when GenerateDelta panics inside getDelta (the slice of
\* generateMatchedBlock out of range): nothing recovers, the Go runtime
\* prints the panic and ends the process with status 2; main logs nothing.
MainGetDeltaPanic ==
    /\ pc = "signed"
    /\ cmd.DeltaMode
    /\ calls' = Append(calls, "getDelta")
    /\ exitCode' = 2
    /\ pc' = "crashed"
    /\ UNCHANGED <<builderVars, cmd, verified, err, logged>>

MainNext ==
    \/ pc = "idle" /\ \E c \in CMDs : MainParse(c)
    \/ MainVerify
    \/ pc = "verified" /\ \E e \in GetSignatureResults : MainGetSignature(e)
    \/ pc = "verified" /\ \E e \in OpenSignatureResults : MainOpenSignature(e)
    \/ pc = "signed" /\ \E e \in GetDeltaResults : MainGetDelta(e)
    \/ MainGetDeltaPanic

MainSpec == Init /\ [][MainNext]_vars

----------------------------------------------------------------------------
(* Vocabulary of the properties *)

\* GenerateDelta has returned a Delta and no error.
Returned == pc = "done" /\ err = nil

\* The run of GenerateDelta has ended: it returned, or it panicked.
Finished == pc \in {"done", "panic"}

\* The window of a file at offset pos (offsets count from 0).
Window(file, pos) == SubSeq(file, pos + 1, pos + chunk)

WindowOffsets(file) == 0..(Len(file) - chunk)

\* The Signature lookup of a window, hashed from scratch.
Lookup(w) == compareChecksums(signature, w, generateWeakHash(w, chunk))

\* The windows of a file found in the Signature are exactly those at the offsets in S.
FoundExactlyAt(file, S) ==
    \A pos \in WindowOffsets(file) : Lookup(Window(file, pos)).exists <=> pos \in S

\* Greatest offset at which window w occurs in a file that holds it.
LastOccurrence(file, w) ==
    CHOOSE p \in WindowOffsets(file) :
        /\ Window(file, p) = w
        /\ \A q \in WindowOffsets(file) : Window(file, q) = w => q <= p

Matched(h, t) == [Head |-> h, Tail |-> t, IsModified |-> FALSE, Value |-> <<>>]

Modified(v) == [Head |-> 0, Tail |-> Len(v) - 1, IsModified |-> TRUE, Value |-> v]

BlockLen(b) == b.Tail - b.Head + 1

MinOf(S) == CHOOSE k \in S : \A j \in S : k <= j

\* Two keys of a Delta with no key between them.
Adjacent(d, j, k) == j < k /\ ~(\E m \in DOMAIN d : j < m /\ m < k)

\* What the receiver emits for one block: the literal bytes of a modified
\* block, the range [Head, Tail] of the original for a matched one (<<-1>>
\* when the range is not inside the original).
BlockBytes(b, orig) ==
    IF b.IsModified THEN b.Value
    ELSE IF 0 <= b.Head /\ b.Head <= b.Tail + 1 /\ b.Tail < Len(orig)
         THEN SubSeq(orig, b.Head + 1, b.Tail + 1)
         ELSE <<-1>>

RECURSIVE Replay(_, _, _)
\* The bytes emitted for the blocks at the given keys, in ascending key order.
Replay(d, keys, orig) ==
    IF keys = {} THEN <<>>
    ELSE LET k == MinOf(keys)
         IN  BlockBytes(d[k], orig) \o Replay(d, keys \ {k}, orig)

RECURSIVE SumLen(_, _)
SumLen(d, keys) ==
    IF keys = {} THEN 0
    ELSE LET k == MinOf(keys) IN BlockLen(d[k]) + SumLen(d, keys \ {k})

\* Every key is the sum of the lengths of the blocks before it, and the
\* lengths add up to total.
Tiles(d, total) ==
    /\ \A k \in DOMAIN d : k = SumLen(d, {j \in DOMAIN d : j < k})
    /\ SumLen(d, DOMAIN d) = total

----------------------------------------------------------------------------
(* Claims *)

\* C1 (as claimed): for an original and an updated file of at least chunk
\* bytes, a Delta returned without error replays to the updated file: the
\* blocks in ascending key order, original[Head..Tail] for a matched block and
\* Value for a modified one, give exactly the bytes of the updated file.
C1_RoundTrip ==
    (Returned /\ Len(original) >= chunk /\ Len(updated) >= chunk)
        => Replay(retDelta, DOMAIN retDelta, original) = updated

\* C2 (as claimed): the blocks of a returned Delta over an updated file of
\* L >= chunk bytes tile [0, L): the first key is 0, each next key is the
\* previous key plus the previous block's length, the last block ends at L - 1.
\* (Stated for a Signature of an original of at least chunk bytes, so that
\* no case rests on the padding of a short source.)
C2_Tiling ==
    (Returned /\ Len(original) >= chunk /\ Len(updated) >= chunk)
        => Tiles(retDelta, Len(updated))

\* C3 (as claimed): two entries of a returned Delta that are adjacent in
\* ascending key order have different modified flags.
C3_Alternation ==
    Returned => \A j, k \in DOMAIN retDelta :
                    Adjacent(retDelta, j, k) => retDelta[j].IsModified # retDelta[k].IsModified

\* C3 (amended): two entries of a returned Delta that are adjacent in
\* ascending key order are never both modified; two matched blocks may be
\* adjacent.
C3_NoAdjacentModified ==
    Returned => \A j, k \in DOMAIN retDelta :
                    Adjacent(retDelta, j, k) => ~(retDelta[j].IsModified /\ retDelta[k].IsModified)

\* C3 witness: a returned Delta in which a modified block is followed by a
\* matched block and that one by a modified block.
C3_Witness ==
    /\ Returned
    /\ \E i, j, k \in DOMAIN retDelta :
          /\ Adjacent(retDelta, i, j) /\ Adjacent(retDelta, j, k)
          /\ retDelta[i].IsModified /\ ~retDelta[j].IsModified /\ retDelta[k].IsModified

\* C4 (as claimed): when the updated file is byte-identical to the original
\* (of at least chunk bytes), GenerateDelta returns the empty Delta and the
\* UpdatedFileHasNoChangesError.
C4_NoChange ==
    (pc = "done" /\ Len(original) >= chunk /\ updated = original)
        => (err = UpdatedFileHasNoChangesError /\ retDelta = EmptyMap)

\* C5 (as claimed): when GenerateDelta fails with UpdatedFileHasNoChangesError,
\* the updated file is byte-identical to the original.  (Stated for files of
\* at least chunk bytes, so that no case rests on the padding of a short source.)
C5_NoChangesMeansIdentical ==
    (pc = "done" /\ err = UpdatedFileHasNoChangesError
        /\ Len(original) >= chunk /\ Len(updated) >= chunk) => updated = original

\* C6: prefix insertion.  The original has chunk bytes, the updated file is
\* k >= 1 bytes P followed by the original, and its only window found in
\* the Signature is the last one: GenerateDelta returns exactly
\* {0: modified P, k: matched 0..chunk-1}.
C6_Pre ==
    /\ Len(original) = chunk
    /\ Len(updated) > chunk
    /\ SubSeq(updated, Len(updated) - chunk + 1, Len(updated)) = original
    /\ FoundExactlyAt(updated, {Len(updated) - chunk})

C6_PrefixInsertion ==
    (Finished /\ C6_Pre)
        => LET k == Len(updated) - chunk
           IN  /\ Returned
               /\ retDelta = MapPut(MapPut(EmptyMap, 0, Modified(SubSeq(updated, 1, k))),
                                    k, Matched(0, chunk - 1))

\* C6 witness: a prefix of two bytes was inserted and GenerateDelta has ended.
C6_Witness == Finished /\ C6_Pre /\ Len(updated) = chunk + 2

\* C7: mid-stream insertion.  The original has 2 * chunk bytes, the updated
\* file is its first window, k >= 1 bytes N, then its last window, and the
\* only windows of the updated file found in the Signature are those at
\* offsets 0 and chunk + k.
C7_Pre ==
    /\ Len(original) = 2 * chunk
    /\ Len(updated) > 2 * chunk
    /\ SubSeq(updated, 1, chunk) = SubSeq(original, 1, chunk)
    /\ SubSeq(updated, Len(updated) - chunk + 1, Len(updated))
           = SubSeq(original, chunk + 1, 2 * chunk)
    /\ FoundExactlyAt(updated, {0, Len(updated) - chunk})

\* The Delta of a mid-stream insertion whose first matched block has head h.
C7_Delta(h) ==
    LET k == Len(updated) - 2 * chunk
    IN  MapPut(MapPut(MapPut(EmptyMap, 0, Matched(h, h + chunk - 1)),
                      chunk, Modified(SubSeq(updated, chunk + 1, chunk + k))),
               chunk + k, Matched(chunk, 2 * chunk - 1))

\* C7 (as claimed): GenerateDelta returns exactly {0: matched 0..chunk-1,
\* chunk: modified N, chunk+k: matched chunk..2*chunk-1}.
C7_MidInsertion ==
    (Finished /\ C7_Pre) => (Returned /\ retDelta = C7_Delta(0))

\* C7 (amended): GenerateDelta returns exactly {0: matched h..h+chunk-1,
\* chunk: modified N, chunk+k: matched chunk..2*chunk-1}, where h is the
\* greatest offset at which the first window of the original occurs in the
\* original (0 when it occurs only at the start).
C7_MidInsertionLastHead ==
    (Finished /\ C7_Pre)
        => (Returned
            /\ retDelta = C7_Delta(LastOccurrence(original, SubSeq(original, 1, chunk))))

\* C7 witness: two bytes were inserted between the two windows of an original
\* and GenerateDelta has ended.
C7_Witness == Finished /\ C7_Pre /\ Len(updated) = 2 * chunk + 2

\* C8: suffix insertion.  The original has chunk bytes, the updated file is
\* the original followed by k >= 1 bytes S, and only its first window is
\* found in the Signature: GenerateDelta returns exactly
\* {0: matched 0..chunk-1, chunk: modified S}.
C8_Pre ==
    /\ Len(original) = chunk
    /\ Len(updated) > chunk
    /\ SubSeq(updated, 1, chunk) = original
    /\ FoundExactlyAt(updated, {0})

C8_SuffixInsertion ==
    (Finished /\ C8_Pre)
        => (Returned
            /\ retDelta = MapPut(MapPut(EmptyMap, 0, Matched(0, chunk - 1)),
                                 chunk, Modified(SubSeq(updated, chunk + 1, Len(updated)))))

\* C8 witness: a suffix of two bytes was appended and GenerateDelta has ended.
C8_Witness == Finished /\ C8_Pre /\ Len(updated) = chunk + 2

\* C9: deletion at the join.  The original has 2 * chunk + 1 bytes, the
\* updated file is the original without the byte at offset chunk, and the
\* only windows of the updated file found in the Signature are those at
\* offset 0 (stored head 0) and offset chunk (stored head chunk + 1):
\* GenerateDelta returns exactly the two matched blocks
\* {0: matched 0..chunk-1, chunk: matched chunk+1..2*chunk}.
C9_Pre ==
    /\ Len(original) = 2 * chunk + 1
    /\ updated = SubSeq(original, 1, chunk) \o SubSeq(original, chunk + 2, 2 * chunk + 1)
    /\ FoundExactlyAt(updated, {0, chunk})
    /\ Lookup(Window(updated, 0)).head = 0
    /\ Lookup(Window(updated, chunk)).head = chunk + 1

C9_DeletionAtJoin ==
    (Finished /\ C9_Pre)
        => (Returned
            /\ retDelta = MapPut(MapPut(EmptyMap, 0, Matched(0, chunk - 1)),
                                 chunk, Matched(chunk + 1, 2 * chunk)))

\* C9 witness: the byte at the join was deleted and GenerateDelta has ended.
C9_Witness == Finished /\ C9_Pre

\* C10: interleaved modifications.  The updated file is m1, A, m2, B, m3 with
\* m1 of i >= 1 bytes, m2 of j >= 1 bytes, m3 not empty, A and B windows found
\* in the Signature with stored heads a and b, and no other window of the
\* updated file found: GenerateDelta returns exactly the five blocks
\* modified m1, matched a..a+chunk-1, modified m2, matched b..b+chunk-1,
\* modified m3 at the keys 0, i, i+chunk, i+chunk+j, i+2*chunk+j.
C10_Pre(i, j) ==
    /\ Len(updated) > i + 2 * chunk + j
    /\ FoundExactlyAt(updated, {i, i + chunk + j})

C10_Delta(i, j) ==
    LET a == Lookup(Window(updated, i)).head
        b == Lookup(Window(updated, i + chunk + j)).head
        d1 == MapPut(EmptyMap, 0, Modified(SubSeq(updated, 1, i)))
        d2 == MapPut(d1, i, Matched(a, a + chunk - 1))
        d3 == MapPut(d2, i + chunk, Modified(SubSeq(updated, i + chunk + 1, i + chunk + j)))
        d4 == MapPut(d3, i + chunk + j, Matched(b, b + chunk - 1))
    IN  MapPut(d4, i + 2 * chunk + j,
               Modified(SubSeq(updated, i + 2 * chunk + j + 1, Len(updated))))

C10_Interleaved ==
    Finished => \A i, j \in 1..Len(updated) :
                    C10_Pre(i, j) => (Returned /\ retDelta = C10_Delta(i, j))

\* C10 witness: an updated file of that shape with two bytes between two
\* windows stored at different heads, and GenerateDelta has ended.
C10_Witness ==
    /\ Finished
    /\ \E i \in 1..Len(updated) :
          /\ C10_Pre(i, 2)
          /\ Lookup(Window(updated, i)).head # Lookup(Window(updated, i + chunk + 2)).head

\* C11: roll consistency.  After generateWeakHash of a window and any number
\* of advances, each rolling the hash with the byte popped from the front
\* and the byte pushed at the back, the rolled weak hash equals the weak
\* hash of the current window computed from scratch.
C11_RollConsistency ==
    pc = "hashRoll" => weakHash = generateWeakHash(buffer, chunk)

\* C11 witness: a window reached by a roll that evicted a non-zero byte and
\* appended another non-zero byte.
C11_Witness ==
    /\ pc = "hashRoll"
    /\ evictedByte # 0
    /\ appendedByte # 0
    /\ appendedByte # evictedByte
    /\ weakHash = rollWeakHash(priorHash, evictedByte, appendedByte, chunk)

\* C12: hash range.  The weak hash of every window lies in [0, mod), and
\* rolling any hash value of [0, mod) with any evicted and appended byte
\* gives a value in [0, mod).
C12_HashRange ==
    pc \in {"hashRoll", "hashRolled"} => (0 <= weakHash /\ weakHash < mod)

\* C12 witness: a hash value smaller than the reduced weight of the evicted
\* byte has been rolled (the difference in rollWeakHash is negative).
C12_Witness ==
    /\ pc = "hashRolled"
    /\ priorHash < modulo(evictedByte * Pow(seed, chunk - 1), mod)

\* The Signature entry of the window of the original at offset p.
EntryAt(p) ==
    StrongSignature(generateStrongHash(Window(original, p), chunk), p, p + chunk - 1)

\* The offsets of the windows of the original whose weak hash is h.
OffsetsWithHash(h) ==
    {p \in WindowOffsets(original) : generateWeakHash(Window(original, p), chunk) = h}

MaxOf(S) == CHOOSE k \in S : \A j \in S : j <= k

\* Two windows of the original at different offsets have the same weak hash.
WeakCollision ==
    \E p, q \in WindowOffsets(original) :
        p < q /\ q \in OffsetsWithHash(generateWeakHash(Window(original, p), chunk))

\* C13: Signature content.  For an original of L >= chunk bytes the
\* Signature returned holds the weak hash of the window at every position
\* 0..L-chunk as a key, and every entry has Tail - Head + 1 = chunk,
\* 0 <= Head <= L - chunk and the strong hash of the window at Head.
C13_SignatureContent ==
    (pc = "sigDone" /\ Len(original) >= chunk)
        => /\ \A p \in WindowOffsets(original) :
                  generateWeakHash(Window(original, p), chunk) \in DOMAIN signature
           /\ \A k \in DOMAIN signature :
                  /\ signature[k].Tail - signature[k].Head + 1 = chunk
                  /\ 0 <= signature[k].Head
                  /\ signature[k].Head <= Len(original) - chunk
                  /\ signature[k].Hash
                         = generateStrongHash(Window(original, signature[k].Head), chunk)

\* C13 witness: the Signature of an original of 2 * chunk bytes with an
\* entry for each of its chunk + 1 windows has been returned.
C13_Witness ==
    /\ pc = "sigDone"
    /\ Len(original) = 2 * chunk
    /\ Cardinality(DOMAIN signature) = chunk + 1

\* C14: last wins.  When two or more windows of the original have the same
\* weak hash, the entry stored under that hash in the returned Signature
\* is the one of the window with the greatest offset.
C14_LastWins ==
    (pc = "sigDone" /\ Len(original) >= chunk)
        => \A p \in WindowOffsets(original) :
               LET h == generateWeakHash(Window(original, p), chunk)
               IN  Cardinality(OffsetsWithHash(h)) >= 2
                       => (h \in DOMAIN signature
                           /\ signature[h] = EntryAt(MaxOf(OffsetsWithHash(h))))

\* C14 witness: a Signature has been returned for an original in which two
\* windows of different content have the same weak hash.
C14_Witness ==
    /\ pc = "sigDone"
    /\ \E p, q \in WindowOffsets(original) :
          /\ p < q
          /\ Window(original, p) # Window(original, q)
          /\ generateWeakHash(Window(original, p), chunk)
                 = generateWeakHash(Window(original, q), chunk)

\* C15: Signature size.  For an original of L >= chunk bytes the returned
\* Signature has at most L - chunk + 1 entries, and exactly that many if
\* and only if no two windows of the original have the same weak hash.
C15_SignatureSize ==
    (pc = "sigDone" /\ Len(original) >= chunk)
        => /\ Cardinality(DOMAIN signature) <= Len(original) - chunk + 1
           /\ (Cardinality(DOMAIN signature) = Len(original) - chunk + 1) <=> ~WeakCollision

\* C15 witness: a Signature with fewer entries than windows has been returned.
C15_Witness ==
    /\ pc = "sigDone"
    /\ Len(original) > chunk
    /\ WeakCollision
    /\ Cardinality(DOMAIN signature) < Len(original) - chunk + 1

\* C16 (as claimed): a source of fewer than chunk bytes makes the priming of
\* the window fail with the end-of-file error: GenerateSignature on such an
\* original returns the empty Signature with that error, GenerateDelta on
\* such an updated file returns the empty Delta with that error, and no
\* window is ever hashed.
C16_ShortSourceFails ==
    /\ (pc \in {"sigLoop", "sigFailed", "sigDone"} /\ Len(original) < chunk)
           => (pc = "sigFailed" /\ err = EndOfFileError /\ signature = EmptyMap)
    /\ (pc \in {"deltaLoop", "done", "panic"} /\ Len(updated) < chunk)
           => (pc = "done" /\ err = EndOfFileError /\ retDelta = EmptyMap)

\* C17: Signature lookup.  For every Signature handed to GenerateDelta,
\* every key h and every window w, compareChecksums returns (true, Head,
\* Tail) of the entry stored under h exactly when h is a key of the
\* Signature and the strong hash of w is the stored one, and (false, -1, -1)
\* otherwise; the flag GenerateDelta keeps for the current window is that
\* result.
C17_Expected(w, h) ==
    IF h \in DOMAIN signature /\ signature[h].Hash = generateStrongHash(w, chunk)
    THEN [exists |-> TRUE, head |-> signature[h].Head, tail |-> signature[h].Tail]
    ELSE [exists |-> FALSE, head |-> -1, tail |-> -1]

C17_Lookup ==
    /\ pc = "sigDone"
           => \A w \in [1..chunk -> Byte] :
                  \A h \in DOMAIN signature \cup {generateWeakHash(w, chunk)} :
                      compareChecksums(signature, w, h) = C17_Expected(w, h)
    /\ pc = "deltaLoop" => exists = C17_Expected(buffer, weakHash).exists

\* C17 witness: GenerateDelta has looked up a window (of files of at least
\* chunk bytes) whose weak hash is a key of the Signature stored for a
\* window of different content, and has recorded that it was not found.
C17_Witness ==
    /\ pc = "deltaLoop"
    /\ Len(original) >= chunk
    /\ Len(updated) >= chunk
    /\ weakHash \in DOMAIN signature
    /\ signature[weakHash].Hash # generateStrongHash(buffer, chunk)
    /\ ~exists

\* C18: end-of-file flush.  The step of GenerateDelta that meets end of file
\* writes the open block into the Delta at key blockHead, matched or
\* modified, and changes nothing else of the Delta; a Delta returned without
\* error is that Delta, and a modified open block (the only kind that holds
\* bytes) is always returned; after the return the Delta, the open block and
\* the returned Delta never change again.
C18_FlushStep ==
    /\ (pc = "deltaLoop" /\ pc' = "done")
           => /\ blockHead \in DOMAIN delta'
              /\ delta'[blockHead] = block
              /\ \A k \in DOMAIN delta' : k # blockHead => (k \in DOMAIN delta /\ delta'[k] = delta[k])
              /\ block' = block /\ blockHead' = blockHead
              /\ err' = nil => retDelta' = delta'
              /\ block.IsModified => err' = nil
    /\ pc = "done" => UNCHANGED deltaVars

C18_EndOfStreamFlush == [][C18_FlushStep]_vars

\* C18 witness: GenerateDelta has returned a Delta whose last block is the
\* open modified block, of two bytes or more, flushed at end of file.
C18_Witness ==
    /\ Returned
    /\ Len(original) >= chunk
    /\ block.IsModified
    /\ Len(block.Value) >= 2
    /\ blockHead > 0
    /\ blockHead \in DOMAIN retDelta
    /\ retDelta[blockHead] = block

\* C19: an I/O error aborts the build.  When the priming read or a roll
\* fails with an error other than end of file, GenerateSignature returns the
\* empty Signature and that error, and GenerateDelta returns the empty Delta
\* and that error, whatever had been gathered.
C19_IOErrorAborts ==
    /\ (pc = "sigFailed" /\ reader.fault # nil)
           => (err = reader.fault /\ signature = EmptyMap)
    /\ pc = "deltaFailed"
           => (reader.fault # nil /\ err = reader.fault /\ retDelta = EmptyMap)

\* C19 witness: a roll of GenerateDelta has failed after two blocks had been
\* put into the Delta.
C19_Witness ==
    /\ pc = "deltaFailed"
    /\ err \in ReadErrors
    /\ Cardinality(DOMAIN delta) >= 2

\* C20: getDelta error mapping.  getDelta returns the empty Delta with every
\* error.  An open failure "file does not exist" becomes
\* UpdatedFileDoesNotExistError, "found a folder" becomes
\* UpdatedFileIsFolderError, any other is returned unchanged.  A
\* generateDelta failure equal to UpdatedFileHasNoChangesError is returned
\* unchanged, every other becomes UnableToGenerateDeltaError.  A write
\* failure UnableToCreateFileError becomes UnableToCreateDeltaFileError,
\* any other UnableToWriteToDeltaFileError.  The Delta is handed to
\* writeStructToFile only after generateDelta returned it without error.
C20_GetDeltaErrors ==
    /\ pc \in {"openFailed", "generateFailed", "writeFailed"}
           => (outErr # nil /\ outDelta = EmptyMap)
    /\ pc = "openFailed"
           => /\ err = FileDoesNotExistError => outErr = UpdatedFileDoesNotExistError
              /\ err = SearchingForFileButFoundDirError => outErr = UpdatedFileIsFolderError
              /\ err \notin {FileDoesNotExistError, SearchingForFileButFoundDirError}
                     => outErr = err
    /\ pc = "generateFailed"
           => /\ err = UpdatedFileHasNoChangesError => outErr = err
              /\ err # UpdatedFileHasNoChangesError => outErr = UnableToGenerateDeltaError
    /\ pc = "writeFailed"
           => /\ err = UnableToCreateFileError => outErr = UnableToCreateDeltaFileError
              /\ err # UnableToCreateFileError => outErr = UnableToWriteToDeltaFileError
    /\ pc = "written" => (outErr = nil /\ outDelta = retDelta)
    /\ deltaFile # NoFile => (pc \in {"writeFailed", "written"} /\ deltaFile = <<retDelta>>)
    /\ pc \in {"openFailed", "generateFailed"} => deltaFile = NoFile

\* C20 witness: getDelta has returned the no-changes error of generateDelta
\* unchanged, for an updated file identical to the original.
C20_Witness ==
    /\ pc = "generateFailed"
    /\ Len(original) >= chunk
    /\ updated = original
    /\ err = UpdatedFileHasNoChangesError
    /\ outErr = UpdatedFileHasNoChangesError

\* C21: Argument validation.  VerifyCMD(cmd) returns true if and only if at
\* least one mode is set, SignatureMode implies OriginalFile and
\* SignatureFile are non-empty, DeltaMode without SignatureMode implies
\* SignatureFile, UpdatedFile and DeltaFile are non-empty, and both modes
\* imply that all four files are non-empty.
C21_Valid(c) ==
    /\ c.SignatureMode \/ c.DeltaMode
    /\ c.SignatureMode => (c.OriginalFile # "" /\ c.SignatureFile # "")
    /\ (c.DeltaMode /\ ~c.SignatureMode)
           => (c.SignatureFile # "" /\ c.UpdatedFile # "" /\ c.DeltaFile # "")
    /\ (c.DeltaMode /\ c.SignatureMode)
           => (c.OriginalFile # "" /\ c.SignatureFile # ""
               /\ c.UpdatedFile # "" /\ c.DeltaFile # "")

C21_ArgumentValidation ==
    (Len(calls) >= 2 /\ calls[2] = "verifyCMD") => (verified <=> C21_Valid(cmd))

\* A delta-only command line with its three files has been accepted.
C21_Witness ==
    /\ Len(calls) >= 2
    /\ calls[2] = "verifyCMD"
    /\ verified
    /\ cmd.DeltaMode
    /\ ~cmd.SignatureMode
    /\ cmd.OriginalFile = ""

\* C22 (as claimed): Exit status.  An invocation of main ends with exit code
\* zero exactly when every requested phase succeeded; when argument
\* validation, signature generation, signature loading or delta generation
\* fails, the process ends with a non-zero exit code.
C22_ExitStatus ==
    pc \in {"exit", "crashed"}
        => (exitCode = 0 <=> (pc = "exit" /\ verified /\ err = nil))

\* C23: Euclidean modulus.  For every x and every y > 0, modulo(x, y)
\* returns r with 0 <= r < y and (x - r) divisible by y; in particular
\* modulo(-10, 4) = 2, which is not the host remainder (-2).
C23_EuclideanModulus ==
    applied.fn = "modulo" =>
        LET x == applied.args[1]
            y == applied.args[2]
            r == applied.result
        IN  /\ 0 <= r
            /\ r < y
            /\ \E q \in (0 - MaxOperand - 1)..(MaxOperand + 1) : x - r = q * y
            /\ (x = -10 /\ y = 4) => (r = 2 /\ r # modulo_HostRemainder(x, y))

\* modulo(-10, 4) has been applied.
C23_Witness ==
    /\ applied.fn = "modulo"
    /\ applied.args = <<-10, 4>>
    /\ applied.result = 2

\* C24: Pinned roll vector.  With chunk 16, seed 11 and mod 10^11 + 9 the
\* weak hash of the window 'abcdefghijklmnop' is 76935130210, and rolling it
\* by evicting 'a' and appending 'q' yields 49921073876, which is also the
\* from-scratch weak hash of 'bcdefghijklmnopq'.
C24_PinnedRollVector ==
    /\ (applied.fn = "generateWeakHash" /\ buffer = testBuffer)
           => applied.result = decimal(<<7, 6, 9, 3, 5, 1, 3, 0, 2, 1, 0>>)
    /\ (applied.fn = "rollWeakHash" /\ buffer = [i \in 1..sourceChunk |-> 97 + i])
           => /\ applied.args[1] = decimal(<<7, 6, 9, 3, 5, 1, 3, 0, 2, 1, 0>>)
              /\ applied.args[2] = 97
              /\ applied.args[3] = 113
              /\ applied.result = decimal(<<4, 9, 9, 2, 1, 0, 7, 3, 8, 7, 6>>)
              /\ applied.result = generateWeakHashInt64(buffer, sourceChunk).result

\* The hash of 'abcdefghijklmnop' has been rolled to 'bcdefghijklmnopq'.
C24_Witness ==
    /\ applied.fn = "rollWeakHash"
    /\ buffer = [i \in 1..sourceChunk |-> 97 + i]
    /\ applied.args[2] = 97

\* C25: No 64-bit overflow.  For a window of 16 bytes (0..255) with seed 11,
\* the unreduced sum computed by generateWeakHash and every intermediate of
\* rollWeakHash (byte * seed^15, the difference, the product by seed) stay
\* within the signed 64-bit range, so the result is the mathematical value
\* (seed^15 is below 2^53, so math.Pow returns it exactly); for the all-0xFF
\* window the weak hash is exactly 11415635451.
C25_NoOverflow ==
    applied.fn \in {"generateWeakHash", "rollWeakHash"} =>
        /\ \A i \in DOMAIN applied.steps : fitsInt64(applied.steps[i])
        /\ fitsInt64(applied.result)
        /\ natLess(PowInt64(seed, sourceChunk - 1).mag, MaxExactFloat64.mag)
        /\ (applied.fn = "generateWeakHash" /\ buffer = [i \in 1..sourceChunk |-> 255])
               => applied.result = decimal(<<1, 1, 4, 1, 5, 6, 3, 5, 4, 5, 1>>)
        /\ applied.fn = "rollWeakHash"
               => applied.result = generateWeakHashInt64(buffer, sourceChunk).result

\* The all-0xFF window has been hashed, through the largest unreduced sum.
C25_Witness ==
    /\ applied.fn = "generateWeakHash"
    /\ buffer = [i \in 1..sourceChunk |-> 255]
    /\ Len(applied.steps) = 2 * sourceChunk
    /\ Len(applied.steps[2 * sourceChunk].mag) = 19

\* C26: Block representation.  In every Delta returned by GenerateDelta,
\* every modified block has Head = 0, a non-empty Value and
\* Tail = len(Value) - 1, and every matched block has an empty Value and
\* Head <= Tail.
C26_BlockRepresentation ==
    Returned =>
        \A k \in DOMAIN retDelta :
            LET b == retDelta[k]
            IN  IF b.IsModified
                THEN b.Head = 0 /\ b.Value # <<>> /\ b.Tail = Len(b.Value) - 1
                ELSE b.Value = <<>> /\ b.Head <= b.Tail

\* A Delta has been returned with a matched block, then a modified block that
\* was cut back when the next match was found, then that match.
C26_Witness ==
    /\ Returned
    /\ \E j, k, m \in DOMAIN retDelta :
           /\ j < k
           /\ k < m
           /\ ~retDelta[j].IsModified
           /\ retDelta[k].IsModified
           /\ ~retDelta[m].IsModified

\* The lookup of the window a step of the loop rolls to.
RolledLookup == compareChecksums(signature, buffer', weakHash')

\* A step of the loop of GenerateDelta that rolls the window by one byte.
RollStep == pc = "deltaLoop" /\ deltaHead' = deltaHead + 1

\* C27 (as claimed): not-matched to matched truncation.  When the rolled
\* window matches after a non-matching step and the open modified block is
\* not the initial prefix, the block emitted at key blockHead has
\* Tail = oldTail + 1 - chunk and Value equal to the first oldTail + 2 - chunk
\* bytes of the old value (the last chunk - 1 bytes are removed); when it is
\* the initial prefix it is emitted unchanged and initialBlockMatches becomes
\* true; in both cases blockHead then becomes deltaHead and the new open
\* block is matched with the head and tail returned by the lookup.
C27_TruncationStep ==
    (RollStep /\ ~exists /\ RolledLookup.exists) =>
        /\ blockHead \in DOMAIN delta'
        /\ IF initialBlockMatches
           THEN /\ delta'[blockHead].Tail = block.Tail + 1 - chunk
                /\ delta'[blockHead].Value = SubSeq(block.Value, 1, block.Tail + 2 - chunk)
                /\ Len(delta'[blockHead].Value) = Len(block.Value) - (chunk - 1)
                /\ delta'[blockHead].IsModified
           ELSE /\ delta'[blockHead] = block
                /\ initialBlockMatches'
        /\ \A k \in DOMAIN delta' : k # blockHead => (k \in DOMAIN delta /\ delta'[k] = delta[k])
        /\ blockHead' = deltaHead'
        /\ block' = Matched(RolledLookup.head, RolledLookup.tail)
        /\ exists'

C27_NotMatchedToMatched == [][C27_TruncationStep]_vars

\* C28: not-matched to not-matched append.  On a non-matching step that
\* follows a non-matching step, nothing is added to the Delta, blockHead is
\* unchanged, the open modified block's Tail grows by exactly 1 and exactly
\* one byte is appended to its Value: the first byte of the new window while
\* initialBlockMatches is false, otherwise the byte just rolled in at the
\* back.
C28_AppendStep ==
    (RollStep /\ ~exists /\ ~RolledLookup.exists) =>
        /\ pc' = "deltaLoop"
        /\ delta' = delta
        /\ blockHead' = blockHead
        /\ block.IsModified
        /\ block'.IsModified
        /\ block'.Head = block.Head
        /\ block'.Tail = block.Tail + 1
        /\ block'.Value = Append(block.Value,
                                 IF ~initialBlockMatches THEN buffer'[1] ELSE buffer'[chunk])
        /\ initialBlockMatches' = initialBlockMatches
        /\ ~exists'

C28_NotMatchedAppend == [][C28_AppendStep]_vars

\* A modified block opened after a matched block has grown to two bytes, the
\* second of which is the byte rolled in, which is not the front of the window.
C28_Witness ==
    /\ pc = "deltaLoop"
    /\ Len(original) >= chunk
    /\ ~exists
    /\ initialBlockMatches
    /\ blockHead > 0
    /\ block.IsModified
    /\ Len(block.Value) = 2
    /\ block.Value[2] = buffer[chunk]
    /\ block.Value[2] # buffer[1]

\* C29: matched to not-matched handover.  On a non-matching step that
\* follows a matching step, the open matched block is written at key
\* blockHead, blockHead advances by (Tail - Head + 1) of that block, and the
\* new open block is modified {Head 0, Tail 0, Value [the byte rolled in]};
\* the new blockHead always equals deltaTail, the destination offset of the
\* byte just rolled in.
C29_HandoverStep ==
    (RollStep /\ exists /\ ~RolledLookup.exists) =>
        /\ pc' = "deltaLoop"
        /\ ~block.IsModified
        /\ delta' = MapPut(delta, blockHead, block)
        /\ blockHead' = blockHead + (block.Tail - block.Head + 1)
        /\ block' = Modified(<<buffer'[chunk]>>)
        /\ blockHead' = deltaTail'
        /\ ~exists'

C29_MatchedToNotMatched == [][C29_HandoverStep]_vars

\* A matched block extended by one window has been written, and the modified
\* block that follows it is open at the offset of the byte rolled in.
C29_Witness ==
    /\ pc = "deltaLoop"
    /\ Len(original) >= chunk
    /\ ~exists
    /\ block = Modified(<<buffer[chunk]>>)
    /\ blockHead = deltaTail
    /\ \E k \in DOMAIN delta :
           /\ ~delta[k].IsModified
           /\ BlockLen(delta[k]) = chunk + 1
           /\ blockHead = k + chunk + 1

\* The destination bytes a matched block accounts for: a matched block
\* written at key k spans k .. k + (Tail - Head); no other key lies in that
\* span, the next block is at the offset after it, and the last block written
\* ends at the last byte of the last window.  The open matched block spans
\* blockHead .. deltaTail.
C30_Covered ==
    pc \in {"deltaLoop", "done"} =>
        /\ \A k \in DOMAIN delta :
               ~delta[k].IsModified =>
                   /\ BlockLen(delta[k]) >= chunk
                   /\ \A j \in DOMAIN delta : ~(k < j /\ j < k + BlockLen(delta[k]))
                   /\ \/ k + BlockLen(delta[k]) \in DOMAIN delta
                      \/ pc = "deltaLoop" /\ blockHead = k + BlockLen(delta[k])
                      \/ pc = "done" /\ k = blockHead /\ k + BlockLen(delta[k]) - 1 = deltaTail
        /\ (pc = "deltaLoop" /\ ~block.IsModified)
               => blockHead + (block.Tail - block.Head) = deltaTail

\* C30: matched to matched extension.  On a matching step that follows a
\* matching step, the open matched block's Tail grows by exactly 1 while its
\* Head, the Delta and blockHead are unchanged, and the head and tail
\* returned by the lookup for the new window are not used; consequently every
\* matched block written covers exactly the destination bytes from its key
\* to its key + (Tail - Head).
C30_ExtensionStep ==
    /\ (RollStep /\ exists /\ RolledLookup.exists) =>
           /\ pc' = "deltaLoop"
           /\ block' = [block EXCEPT !.Tail = block.Tail + 1]
           /\ ~block'.IsModified
           /\ delta' = delta
           /\ blockHead' = blockHead
           /\ initialBlockMatches' = initialBlockMatches
           /\ exists'
    /\ C30_Covered'

C30_MatchedExtension == [][C30_ExtensionStep]_vars

\* A matched block has been extended over a window the Signature holds at
\* another place than the one after the block's, so that the head and tail of
\* the lookup differ from the block's.
C30_Witness ==
    /\ pc = "deltaLoop"
    /\ Len(original) >= chunk
    /\ exists
    /\ ~block.IsModified
    /\ BlockLen(block) > chunk
    /\ Lookup(buffer).tail # block.Tail

\* The positions at which main called f.
CallsOf(f) == {i \in DOMAIN calls : calls[i] = f}

\* The error messages logged: every line but the one ParseCMD logs under -v.
ErrorLines == {i \in DOMAIN logged : logged[i] # "CMD"}

\* main has ended, by returning or by a panic.
MainEnded == pc \in {"exit", "crashed"}

\* C31 (as claimed): driver phase ordering.  In main, VerifyCMD runs first
\* and nothing else runs if it returns false; when SignatureMode is set the
\* signature is generated and written before any delta work; in combined
\* mode the in-memory signature is used and the signature file is not read
\* back, while in delta-only mode the signature is loaded from file first;
\* as soon as one phase fails no later phase runs and main logs exactly one
\* error message, and a fully successful run logs none.
C31_PhaseOrdering ==
    /\ Len(calls) >= 2 => (calls[1] = "parseCMD" /\ calls[2] = "verifyCMD")
    /\ (Len(calls) >= 2 /\ ~verified) => (Len(calls) = 2 /\ MainEnded)
    /\ \A i \in CallsOf("getDelta") :
           IF cmd.SignatureMode
           THEN calls[i - 1] = "getSignature" /\ CallsOf("openSignature") = {}
           ELSE calls[i - 1] = "openSignature" /\ CallsOf("getSignature") = {}
    /\ \A i \in CallsOf("getSignature") \cup CallsOf("openSignature") : i = 3
    /\ \A f \in {"parseCMD", "verifyCMD", "getSignature", "openSignature", "getDelta"} :
           Cardinality(CallsOf(f)) <= 1
    /\ MainEnded =>
           IF pc = "exit" /\ verified /\ err = nil
           THEN /\ ErrorLines = {}
                /\ cmd.SignatureMode => CallsOf("getSignature") # {}
                /\ cmd.DeltaMode => CallsOf("getDelta") # {}
           ELSE Cardinality(ErrorLines) = 1
    /\ ~MainEnded => ErrorLines = {}

\* C32 (as claimed): single ordered pass and termination.  For a finite
\* source of L >= chunk bytes whose reads do not fail, GenerateSignature and
\* GenerateDelta each process the window positions 0, 1, ..., L - chunk
\* exactly once in strictly increasing order (one insertion or lookup per
\* position), then receive end of file and return: a pass starts at position
\* 0, every iteration moves to the next position, and the loop is left only
\* from the last position, by returning.
C32_PassStep ==
    /\ (pc = "idle" /\ pc' = "sigLoop") => head' = 0
    /\ (pc = "sigLoop" /\ pc' = "sigLoop" /\ Len(original) >= chunk)
           => /\ head' = head + 1
              /\ head' <= Len(original) - chunk
              /\ \E h \in DOMAIN signature' : signature'[h].Head = head'
    /\ (pc = "sigLoop" /\ pc' \notin {"sigLoop", "sigFailed"} /\ Len(original) >= chunk)
           => (pc' = "sigDone" /\ head = Len(original) - chunk)
    /\ (pc = "sigDone" /\ pc' = "deltaLoop") => deltaHead' = 0
    /\ (pc = "deltaLoop" /\ deltaHead' # deltaHead /\ Len(updated) >= chunk)
           => /\ deltaHead' = deltaHead + 1
              /\ deltaHead' <= Len(updated) - chunk
              /\ pc' = "deltaLoop"
    /\ (pc = "deltaLoop" /\ pc' \notin {"deltaLoop", "deltaFailed"} /\ Len(updated) >= chunk)
           => (pc' = "done" /\ deltaHead = Len(updated) - chunk)

C32_SingleOrderedPass == [][C32_PassStep]_vars

\* C33: the Signature is read-only in the delta pass.  No step of
\* GenerateDelta (its first lookup, an iteration of its loop, its returns on
\* end of file or on a read error) and no step after it adds, removes or
\* changes a Signature entry, so the Signature after GenerateDelta has
\* returned a Delta, NoChanges or an error is the Signature passed in.
InDeltaPass == pc \in {"sigDone", "deltaLoop", "done", "deltaFailed", "panic"}

C33_DeltaPassStep == InDeltaPass => signature' = signature

C33_SignatureReadOnly == [][C33_DeltaPassStep]_vars

\* A Delta was returned after lookups that hit and lookups that missed.
C33_Witness ==
    /\ Returned
    /\ Len(original) >= chunk
    /\ \E k \in DOMAIN retDelta : retDelta[k].IsModified
    /\ \E k \in DOMAIN retDelta : ~retDelta[k].IsModified

\* C34 (as claimed): truncation is always in range.  Whenever a match follows
\* a miss and the open modified block is not the initial prefix, that block
\* holds at least chunk - 1 bytes, so the new tail Tail + 1 - chunk is at
\* least -1 and the slice Value[0 : newTail + 1] has no negative bound:
\* GenerateDelta never aborts with a slice out of range.
C34_TruncationStep ==
    (RollStep /\ ~exists /\ RolledLookup.exists /\ initialBlockMatches) =>
        /\ Len(block.Value) >= chunk - 1
        /\ block.Tail + 1 - chunk >= -1
        /\ pc' # "panic"

C34_TruncationInRange == [][C34_TruncationStep]_vars

\* C35 (as claimed): matched ranges lie inside the original.  In every Delta
\* returned by GenerateDelta against the Signature of an original of L bytes,
\* every matched block has 0 <= Head <= Tail <= L - 1, also when its Tail was
\* extended over several consecutive matching windows.
C35_MatchedInsideOriginal ==
    Returned =>
        \A k \in DOMAIN retDelta :
            ~retDelta[k].IsModified =>
                /\ 0 <= retDelta[k].Head
                /\ retDelta[k].Head <= retDelta[k].Tail
                /\ retDelta[k].Tail <= Len(original) - 1

\* C36: modified values are the updated bytes at their span.  In every Delta
\* returned by GenerateDelta over the updated file, every modified block at
\* key k with Value v has v = updated[k .. k + Len(v) - 1] (offsets from 0),
\* for the initial unmatched prefix and for later modified blocks alike.
C36_ModifiedValues ==
    Returned =>
        \A k \in DOMAIN retDelta :
            retDelta[k].IsModified =>
                /\ k + Len(retDelta[k].Value) <= Len(updated)
                /\ retDelta[k].Value = SubSeq(updated, k + 1, k + Len(retDelta[k].Value))

\* A Delta was returned that holds the initial unmatched prefix and a later
\* modified block that was cut back when a match followed.
C36_Witness ==
    /\ Returned
    /\ Len(original) >= chunk
    /\ 0 \in DOMAIN retDelta /\ retDelta[0].IsModified /\ retDelta[0].Value # <<>>
    /\ \E k \in DOMAIN retDelta :
           /\ k > 0
           /\ retDelta[k].IsModified
           /\ retDelta[k].Value # <<>>
           /\ \E j \in DOMAIN retDelta : j > k /\ ~retDelta[j].IsModified

\* A step of GenerateDelta that writes delta[blockHead]: the flush at end of
\* file, or a roll after which the lookup result differs from the previous one.
WritesBlock ==
    /\ pc = "deltaLoop"
    /\ pc' # "panic"
    /\ pc' = "done" \/ (RollStep /\ exists # RolledLookup.exists)

\* The block covers at least one byte of the updated file.
Covering(b) == IF b.IsModified THEN Len(b.Value) >= 1 ELSE BlockLen(b) >= 1

\* C37: no covering block is overwritten.  During GenerateDelta a write to a
\* key that is already present only ever replaces a modified block with
\* empty Value and Tail = -1, left there by truncation; no entry other than
\* the one written changes or disappears, so a block that covers at least one
\* byte is never replaced; and the key written to never decreases.
C37_WriteStep ==
    pc = "deltaLoop" =>
        /\ (WritesBlock /\ blockHead \in DOMAIN delta)
               => /\ delta[blockHead].IsModified
                  /\ delta[blockHead].Value = <<>>
                  /\ delta[blockHead].Tail = -1
                  /\ ~Covering(delta[blockHead])
        /\ \A k \in DOMAIN delta :
               /\ k \in DOMAIN delta'
               /\ (delta'[k] # delta[k] => (WritesBlock /\ k = blockHead))
        /\ blockHead' >= blockHead
        /\ \A k \in DOMAIN delta : k <= blockHead

C37_NoCoveringBlockOverwritten == [][C37_WriteStep]_vars

\* A Delta was returned in which a matched block lies at the key that follows
\* a matched block: the modified block opened at that key was cut to nothing
\* and then replaced.
C37_Witness ==
    /\ Returned
    /\ Len(original) >= chunk
    /\ \E j, k \in DOMAIN retDelta :
           /\ ~retDelta[j].IsModified
           /\ ~retDelta[k].IsModified
           /\ k = j + BlockLen(retDelta[j])

\* C38: open-block flag consistency.  At the start of every iteration of the
\* loop of GenerateDelta the open block's IsModified is the negation of
\* exists, the lookup result at the previous window position; and
\* initialBlockMatches, once true, stays true until GenerateDelta ends.
C38_FlagStep ==
    /\ pc = "deltaLoop" => block.IsModified = ~exists
    /\ pc' = "deltaLoop" => block'.IsModified = ~exists'
    /\ (pc = "deltaLoop" /\ initialBlockMatches) => initialBlockMatches'

C38_OpenBlockFlag == [][C38_FlagStep]_vars

\* An iteration starts after the initial unmatched prefix was emitted, a
\* matched block followed it, and a modified block is open again.
C38_Witness ==
    /\ pc = "deltaLoop"
    /\ Len(original) >= chunk
    /\ initialBlockMatches
    /\ 0 \in DOMAIN delta /\ delta[0].IsModified
    /\ \E k \in DOMAIN delta : ~delta[k].IsModified
    /\ block.IsModified
    /\ ~exists

====
